---------------------------- MODULE Spec2Model ----------------------------
(***************************************************************************)
(* Model of the ICC profile organizer (organize_profiles.py).              *)
(*                                                                         *)
(* Strings are TLA+ strings and byte strings are sequences of 0..255, so     *)
(* that slicing, case folding, encoding and splitting are computed as the  *)
(* Python code computes them.  Python's None is the record None; a present *)
(* value v is Some(v).  A dict is the sequence of its items in insertion   *)
(* order.                                                                  *)
(*                                                                         *)
(* The module holds one specification per component:                       *)
(*   SpecICC        ICCProfileUpdater (find_tag, update_description_tag,   *)
(*                  process_profile)                                       *)
(*   SpecMatcher    PatternMatcher.match over catalogs of patterns         *)
(*   SpecRule       PatternMatcher._try_pattern and the alias lookup of    *)
(*                  _extract_field, over alias tables and rules            *)
(*   SpecKeys       _find_printer_candidates and _get_preference_key on    *)
(*                  pairs of filenames, over alias tables                  *)
(*   SpecFormat     ProfileOrganizer._format_paper_type applied twice      *)
(*   SpecConfig     ProfileOrganizer._load_config over config.yaml files   *)
(*   SpecResolver   _get_printer_name_interactive with the two caches and  *)
(*                  their documents, over several runs of the program      *)
(*   SpecOrganizer  organize_profiles and organize_pdfs on a directory     *)
(***************************************************************************)
EXTENDS Integers, Sequences, FiniteSets, TLC

VARIABLES
    interactive,        \* self.interactive
    user_choices,       \* self.user_choices: filename -> printer name
    global_preferences, \* self.global_preferences: preference key -> name
    choices_file,       \* the document in .profile_choices.json
    prefs_file,         \* the document in .profile_preferences.json
    last,       \* resolver: the last call of _get_printer_name_interactive:
                \*      its arguments, the caches it found, its result
    resolved,   \* resolver: the interactive resolutions made so far, in order
    runs,       \* resolver: the number of runs of the program started
    calls,      \* resolver: the number of calls of the resolver made
    dry_run,    \* self.dry_run
    source,     \* the files under profiles_dir, in the order rglob lists them
    output,     \* the files under output_dir: destination path -> content
    operations,     \* self.operations: (old_path, new_path) in planning order
    pdf_duplicates, \* self.pdf_duplicates: hash -> list of paths
    files_renamed,  \* self.files_renamed
    files_deleted,  \* self.files_deleted
    unparsed,   \* the files logged as "Could not parse"
    pdf_files,  \* the list rglob('*.pdf') gave the last organize_pdfs
    pc,         \* the position of main: 0 at the start, 1 after
                \*      organize_profiles, 2 after organize_pdfs
    catalog,    \* matcher: the patterns handed to PatternMatcher
    fname,      \* matcher: the filename to match
    matched,    \* matcher: what match returned, once it has been called
    names,      \* matcher: self.printer_names, the alias table
    xf,         \* matcher: the calls of _extract_field for a fixed-index
                \*      printer field on an alias key and on a spelling of it
    tried,      \* matcher: the last call of _try_pattern: its arguments and
                \*      the value it returned
    formatted,  \* matcher: a paper type and what the successive calls of
                \*      format_paper_type made of it, each on the last result
    keyed,      \* two filenames, the candidates found in them and the
                \*      preference keys made of these and of a reordering of
                \*      the first
    config,     \* config.yaml: whether it is there, and the document
                \*      yaml.safe_load makes of it
    loaded,     \* what _load_config left: PRINTER_NAMES, BRAND_NAME_MAPPINGS,
                \*      PRINTER_REMAPPINGS and pattern_matcher.patterns
    disk,       \* ICC: content of the profile file on disk (bytes)
    stem,       \* ICC: file_path.stem, the new description
    udt,        \* ICC: the last call of update_description_tag: its data
                \*      argument and the value it returned
    ft,         \* ICC: the last call of find_tag: its data and signature
                \*      arguments and the value it returned
    pp          \* ICC: the call of process_profile on the file: the content
                \*      it found, whether the read succeeded, the value
                \*      returned and whether f.write(data) was reached

cacheVars == <<interactive, user_choices, global_preferences, choices_file,
               prefs_file>>

callVars == <<last, resolved, runs, calls>>

organizerVars == <<dry_run, source, output, operations, pdf_duplicates,
                   files_renamed, files_deleted, unparsed, pdf_files, pc>>

matcherVars == <<catalog, fname, matched, names, xf, tried, formatted, keyed>>

configVars == <<config, loaded>>

iccVars == <<disk, stem, udt, ft, pp>>

vars == <<cacheVars, callVars, organizerVars, matcherVars, iccVars, configVars>>

-----------------------------------------------------------------------------
(* Python values *)

None == [ok |-> FALSE]

Some(v) == [ok |-> TRUE, val |-> v]

Min(a, b) == IF a <= b THEN a ELSE b

Max(a, b) == IF a >= b THEN a ELSE b

\* s[a:b] for 0 <= a, 0 <= b: out-of-range bounds are clamped, never an error
Slice(s, a, b) ==
    LET lo == Min(a, Len(s))
        hi == Min(b, Len(s))
    IN  IF hi <= lo THEN << >> ELSE SubSeq(s, lo + 1, hi)

\* s[a:]
SliceFrom(s, a) == Slice(s, a, Len(s))

\* padding that is not zero
Zeros_Ones(n) == [i \in 1..Max(n, 0) |-> 1]

\* b'\x00' * n  (the empty string for n <= 0)
Zeros(n) == [i \in 1..Max(n, 0) |-> 0]

\* struct.unpack('>I', b)[0] for a 4-byte string
Unpack32(b) == ((b[1] * 256 + b[2]) * 256 + b[3]) * 256 + b[4]

\* struct.pack('>I', n) for 0 <= n < 2^32
Pack32(n) ==
    << (n \div 16777216) % 256, (n \div 65536) % 256, (n \div 256) % 256, n % 256 >>

-----------------------------------------------------------------------------
(* Python strings.  A character is a string of length 1. *)

UpperChars == "ABCDEFGHIJKLMNOPQRSTUVWXYZ"

LowerChars == "abcdefghijklmnopqrstuvwxyz"

DigitChars == "0123456789"

Char(s, i) == SubSeq(s, i, i)

\* 0 when c does not occur in chars
IndexOf(c, chars) ==
    IF \E i \in 1..Len(chars) : Char(chars, i) = c
    THEN CHOOSE i \in 1..Len(chars) : Char(chars, i) = c
    ELSE 0

CharSet(chars) == {Char(chars, i) : i \in 1..Len(chars)}

UpperSet == CharSet(UpperChars)

LowerSet == CharSet(LowerChars)

DigitSet == CharSet(DigitChars)

\* c.lower() and c.upper() of each letter
LowerOf == [c \in UpperSet |-> Char(LowerChars, IndexOf(c, UpperChars))]

UpperOf == [c \in LowerSet |-> Char(UpperChars, IndexOf(c, LowerChars))]

IsUpper(c) == c \in UpperSet

IsLower(c) == c \in LowerSet

IsDigit(c) == c \in DigitSet

IsSpace(c) == c = " "

LowerChar(c) == IF c \in UpperSet THEN LowerOf[c] ELSE c

UpperChar(c) == IF c \in LowerSet THEN UpperOf[c] ELSE c

\* s[a:b] and s[a:] on strings
StrSlice(s, a, b) ==
    LET lo == Min(a, Len(s))
        hi == Min(b, Len(s))
    IN  IF hi <= lo THEN "" ELSE SubSeq(s, lo + 1, hi)

StrFrom(s, a) == StrSlice(s, a, Len(s))

RECURSIVE Lower(_)
\* s.lower()
Lower(s) ==
    IF s = "" THEN "" ELSE LowerChar(Char(s, 1)) \o Lower(StrFrom(s, 1))

RECURSIVE Upper(_)
\* s.upper()
Upper(s) ==
    IF s = "" THEN "" ELSE UpperChar(Char(s, 1)) \o Upper(StrFrom(s, 1))

\* s.startswith(p)
StartsWith(s, p) == Len(p) <= Len(s) /\ SubSeq(s, 1, Len(p)) = p

\* s.find(sub, from): the 0-based index of the first occurrence at or after
\* `from`, -1 when there is none
Find(s, sub, from) ==
    LET hits == {i \in from..(Len(s) - Len(sub)) : SubSeq(s, i + 1, i + Len(sub)) = sub}
    IN  IF hits = {} THEN -1 ELSE CHOOSE i \in hits : \A j \in hits : i <= j

\* sub in s
Contains(s, sub) == Find(s, sub, 0) # -1

RECURSIVE Split(_, _)
\* s.split(sep) for a non-empty sep: always at least one part
Split(s, sep) ==
    LET i == Find(s, sep, 0) IN
    IF i = -1 THEN << s >>
    ELSE << StrSlice(s, 0, i) >> \o Split(StrFrom(s, i + Len(sep)), sep)

RECURSIVE Join(_, _)
\* sep.join(parts)
Join(sep, parts) ==
    IF Len(parts) = 0 THEN ""
    ELSE IF Len(parts) = 1 THEN parts[1]
    ELSE parts[1] \o sep \o Join(sep, Tail(parts))

RECURSIVE Replace(_, _, _)
\* s.replace(old, new) for a non-empty old
Replace(s, old, new) ==
    LET i == Find(s, old, 0) IN
    IF i = -1 THEN s
    ELSE StrSlice(s, 0, i) \o new \o Replace(StrFrom(s, i + Len(old)), old, new)

RECURSIVE LStrip(_)
LStrip(s) == IF s # "" /\ IsSpace(Char(s, 1)) THEN LStrip(StrFrom(s, 1)) ELSE s

RECURSIVE RStrip(_)
RStrip(s) ==
    IF s # "" /\ IsSpace(Char(s, Len(s))) THEN RStrip(StrSlice(s, 0, Len(s) - 1)) ELSE s

\* s.strip()
Strip(s) == LStrip(RStrip(s))

\* the positions of "." in name, 1-based
DotPositions(name) == {i \in 1..Len(name) : Char(name, i) = "."}

\* Path(name).suffix: from the last dot on, unless that dot starts or ends the name
Suffix(name) ==
    LET dots == DotPositions(name) IN
    IF dots = {} THEN ""
    ELSE LET i == CHOOSE d \in dots : \A e \in dots : e <= d IN
         IF i = 1 \/ i = Len(name) THEN "" ELSE StrFrom(name, i - 1)

\* Path(name).stem
Stem(name) == StrSlice(name, 0, Len(name) - Len(Suffix(name)))

-----------------------------------------------------------------------------
(* Python dicts: a sequence of [key, val] records in insertion order, and    *)
(* for `extracted` a function on the set of its keys                       *)

DictHas(d, k) == \E i \in 1..Len(d) : d[i].key = k

DictGet(d, k) == d[CHOOSE i \in 1..Len(d) : d[i].key = k].val

\* d[k] = v: a new key goes last, an existing key keeps its place
DictSet(d, k, v) ==
    IF DictHas(d, k)
    THEN [i \in 1..Len(d) |-> IF d[i].key = k THEN [key |-> k, val |-> v] ELSE d[i]]
    ELSE Append(d, [key |-> k, val |-> v])

\* the least index at which the sequence of flags holds TRUE, 0 when there is
\* none: the element a `for ...: if ...: return/break` loop stops at
FirstIndex(flags) ==
    LET hits == {i \in 1..Len(flags) : flags[i]}
    IN  IF hits = {} THEN 0 ELSE CHOOSE i \in hits : \A j \in hits : i <= j

-----------------------------------------------------------------------------
(* PatternMatcher *)

\* FieldDefinition.position: an int, "before_printer", "after_printer",
\* "<n>+", "remaining" or None
PosIndex(i) == [kind |-> "index", n |-> i]

PosRange(i) == [kind |-> "range", n |-> i]

PosBefore == [kind |-> "before_printer", n |-> 0]

PosAfter == [kind |-> "after_printer", n |-> 0]

PosRemaining == [kind |-> "remaining", n |-> 0]

PosNone == [kind |-> "none", n |-> 0]

FieldDefinition(f, pos, mt) == [field |-> f, position |-> pos, match_type |-> mt]

\* the longest printer key contained in filename_lower, the first of them in
\* dict order among keys of equal length; 0 when no key is contained
BestKeyIndex(filename_lower, printer_names) ==
    LET hits == {i \in 1..Len(printer_names) :
                    Contains(filename_lower, Lower(printer_names[i].key))}
    IN  IF hits = {} THEN 0
        ELSE CHOOSE i \in hits :
                \A j \in hits :
                    \/ Len(printer_names[j].key) < Len(printer_names[i].key)
                    \/ Len(printer_names[j].key) = Len(printer_names[i].key) /\ i <= j

\* the test shared by before_printer and after_printer
PartHasKey(part, printer_names) ==
    \E k \in 1..Len(printer_names) :
        \/ Lower(part) = Lower(printer_names[k].key)
        \/ Contains(Lower(part), Lower(printer_names[k].key))

_extract_field(parts, field_def, filename, pattern, printer_names) ==
    IF field_def.match_type = "key_search" THEN
            LET Hit(e) == \E i \in 1..Len(parts) :
                              \/ Lower(parts[i]) = Lower(e.key)
                              \/ parts[i] = e.key
                              \/ Contains(Lower(parts[i]), Lower(e.key))
                k == FirstIndex([idx \in 1..Len(printer_names) |-> Hit(printer_names[idx])])
            IN  IF k = 0 THEN None ELSE Some(printer_names[k].val)
    ELSE IF field_def.match_type = "substring" THEN
            LET k == BestKeyIndex(Lower(filename), printer_names)
            IN  IF k = 0 THEN None ELSE Some(printer_names[k].val)
    ELSE IF field_def.position.kind = "index" THEN
            LET pos == field_def.position.n IN
            IF 0 <= pos /\ pos < Len(parts)
            THEN LET part == parts[pos + 1] IN
                 IF field_def.field = "printer"
                 THEN IF DictHas(printer_names, part)
                      THEN Some(DictGet(printer_names, part))
                      ELSE LET Hit(e) ==
                                   \/ Lower(part) = Lower(e.key)
                                   \/ Contains(Lower(part), Lower(e.key))
                                   \/ Contains(Lower(e.key), Lower(part))
                               k == FirstIndex([idx \in 1..Len(printer_names) |-> Hit(printer_names[idx])])
                           IN  IF k = 0 THEN Some(part)
                               ELSE Some(printer_names[k].val)
                 ELSE Some(part)
            ELSE None
    ELSE IF field_def.position.kind = "before_printer" THEN
            LET Hit(part) == PartHasKey(part, printer_names)
                i == FirstIndex([idx \in 1..Len(parts) |-> Hit(parts[idx])])
            IN  IF i = 0 THEN None
                ELSE Some(Join(pattern.delimiter, SubSeq(parts, 1, i - 1)))
    ELSE IF field_def.position.kind = "after_printer" THEN
            LET hits == {i \in 1..(Len(parts) - 1) : PartHasKey(parts[i], printer_names)}
            IN  IF hits = {} THEN None
                ELSE LET i == CHOOSE h \in hits : \A j \in hits : h <= j
                     IN  Some(Join(pattern.delimiter, SubSeq(parts, i + 1, Len(parts))))
    ELSE IF field_def.position.kind = "range" THEN
            LET start_idx == field_def.position.n IN
            IF start_idx < Len(parts)
            THEN Some(Join(pattern.delimiter, SubSeq(parts, start_idx + 1, Len(parts))))
            ELSE None
    ELSE IF field_def.position.kind = "remaining" THEN
            LET filename_lower == Lower(filename)
                k == BestKeyIndex(filename_lower, printer_names)
            IN  IF k = 0 THEN None
                ELSE Some(Strip(Replace(filename_lower, Lower(printer_names[k].key), "")))
    ELSE None

_normalize_brand(brand, brand_name_mappings) ==
    IF DictHas(brand_name_mappings, brand) THEN DictGet(brand_name_mappings, brand)
    ELSE brand

\* re.sub(re.escape(token), '', s, flags=re.IGNORECASE)
RECURSIVE RemoveIgnoreCase(_, _)
RemoveIgnoreCase(s, token) ==
    LET i == Find(Lower(s), Lower(token), 0) IN
    IF i = -1 THEN s
    ELSE StrSlice(s, 0, i) \o RemoveIgnoreCase(StrFrom(s, i + Len(token)), token)

\* the length of the run of lowercase letters at the start of s
RECURSIVE LowerRun(_)
LowerRun(s) ==
    IF s # "" /\ IsLower(Char(s, 1)) THEN 1 + LowerRun(StrFrom(s, 1)) ELSE 0

\* re.sub(r'([A-Z][a-z]+)', r' \1', s)
RECURSIVE SplitCamelCase(_)
SplitCamelCase(s) ==
    IF s = "" THEN ""
    ELSE LET n == LowerRun(StrFrom(s, 1)) IN
         IF IsUpper(Char(s, 1)) /\ n > 0
         THEN " " \o StrSlice(s, 0, n + 1) \o SplitCamelCase(StrFrom(s, n + 1))
         ELSE Char(s, 1) \o SplitCamelCase(StrFrom(s, 1))

\* re.sub(r'([a-zA-Z])(\d)', r'\1 \2', s)
RECURSIVE SplitLetterDigit(_)
SplitLetterDigit(s) ==
    IF s = "" THEN ""
    ELSE IF /\ Len(s) >= 2
            /\ (IsUpper(Char(s, 1)) \/ IsLower(Char(s, 1)))
            /\ IsDigit(Char(s, 2))
         THEN Char(s, 1) \o " " \o Char(s, 2) \o SplitLetterDigit(StrFrom(s, 2))
         ELSE Char(s, 1) \o SplitLetterDigit(StrFrom(s, 1))

\* runs of spaces left as they are
CollapseSpaces_Keep(s) == s

\* re.sub(r'\s+', ' ', s)
RECURSIVE CollapseSpaces(_)
CollapseSpaces(s) ==
    IF s = "" THEN ""
    ELSE IF IsSpace(Char(s, 1))
         THEN " " \o CollapseSpaces(LStrip(s))
         ELSE Char(s, 1) \o CollapseSpaces(StrFrom(s, 1))

\* word[0].upper() + word[1:] if word else word
Capitalize(word) == IF word = "" THEN word ELSE UpperChar(Char(word, 1)) \o StrFrom(word, 1)

\* ' '.join(Capitalize(word) for word in cleaned.split()), for a cleaned string
\* without leading, trailing or doubled spaces
TitleWords(cleaned) ==
    LET words == Split(cleaned, " ")
    IN  Join(" ", [i \in 1..Len(words) |-> Capitalize(words[i])])

\* remove_brand is None or Some(token)
_format_paper_type(paper_type, remove_brand) ==
    LET c1 == IF remove_brand.ok /\ remove_brand.val # ""
              THEN RemoveIgnoreCase(paper_type, remove_brand.val)
              ELSE paper_type
        c2 == Replace(Replace(c1, "_", " "), "+", " ")
        c3 == SplitCamelCase(c2)
        c4 == SplitLetterDigit(c3)
        c5 == Strip(CollapseSpaces(c4))
    IN  IF c5 # "" THEN TitleWords(c5) ELSE c5

\* the prefix test of _try_pattern: None when the pattern does not apply, else
\* Some(remaining)
PrefixRemaining(filename, pattern) ==
    IF pattern.prefix.ok
    THEN IF Len(pattern.variants) > 0
         THEN LET Hit(variant) ==
                      IF pattern.prefix_case_insensitive
                      THEN StartsWith(Lower(filename), Lower(variant.prefix))
                      ELSE StartsWith(filename, variant.prefix)
                  v == FirstIndex([idx \in 1..Len(pattern.variants) |-> Hit(pattern.variants[idx])])
              IN  IF v = 0 \/ pattern.variants[v].prefix = "" THEN None
                  ELSE Some(StrFrom(filename, pattern.variants[v].prefix_length))
         ELSE IF pattern.prefix_case_insensitive
              THEN IF ~StartsWith(Upper(filename), Upper(pattern.prefix.val)) THEN None
                   ELSE Some(StrFrom(filename, Len(pattern.prefix.val)))
              ELSE IF ~StartsWith(filename, pattern.prefix.val) THEN None
                   ELSE Some(StrFrom(filename, Len(pattern.prefix.val)))
    ELSE Some(filename)

EmptyDict == [f \in {} |-> ""]

RECURSIVE ExtractFields(_, _, _, _, _, _)
\* the loop over pattern.structure, from field i on; extracted maps the
\* fields resolved so far to their values
ExtractFields(parts, filename, pattern, printer_names, i, extracted) ==
    IF i > Len(pattern.structure) THEN extracted
    ELSE LET field_def == pattern.structure[i]
             \* if value is not None: extracted[field_def.field] = value
             Stored(value) ==
                 IF value.ok
                 THEN [f \in DOMAIN extracted \cup {field_def.field} |->
                          IF f = field_def.field THEN value.val ELSE extracted[f]]
                 ELSE extracted
         IN  ExtractFields(parts, filename, pattern, printer_names, i + 1,
                 Stored(_extract_field(parts, field_def, filename, pattern,
                                       printer_names)))

\* a rule that takes the brand it extracted before its fixed brand
_try_pattern_ExtractedFirst(filename, pattern, conf) ==
    LET Validated(extracted) ==
            IF "printer" \notin DOMAIN extracted THEN None
            ELSE LET brand == IF "brand" \in DOMAIN extracted
                              THEN extracted["brand"]
                              ELSE IF pattern.brand_value.ok
                                   THEN pattern.brand_value.val
                              ELSE "Unknown"
                     paper_type == IF "paper_type" \in DOMAIN extracted
                                   THEN extracted["paper_type"] ELSE "Unknown"
                 IN  Some(<< extracted["printer"],
                             _normalize_brand(brand, conf.brand_name_mappings),
                             IF pattern.paper_type_processing.format
                             THEN _format_paper_type(paper_type,
                                      pattern.paper_type_processing.remove_brand)
                             ELSE paper_type >>)
        Parsed(remaining) ==
            IF ~remaining.ok THEN None
            ELSE Validated(ExtractFields(Split(remaining.val, pattern.delimiter),
                                         filename, pattern, conf.printer_names,
                                         1, EmptyDict))
    IN  Parsed(PrefixRemaining(filename, pattern))

\* conf: [printer_names, brand_name_mappings]
_try_pattern(filename, pattern, conf) ==
    LET \* from `# Validate we got required fields` on
        Validated(extracted) ==
            IF "printer" \notin DOMAIN extracted THEN None
            ELSE LET brand == IF pattern.brand_value.ok THEN pattern.brand_value.val
                              ELSE IF "brand" \in DOMAIN extracted
                                   THEN extracted["brand"]
                              ELSE "Unknown"
                     paper_type == IF "paper_type" \in DOMAIN extracted
                                   THEN extracted["paper_type"] ELSE "Unknown"
                 IN  Some(<< extracted["printer"],
                             _normalize_brand(brand, conf.brand_name_mappings),
                             IF pattern.paper_type_processing.format
                             THEN _format_paper_type(paper_type,
                                      pattern.paper_type_processing.remove_brand)
                             ELSE paper_type >>)
        \* from `# Split remaining part by delimiter` on
        Parsed(remaining) ==
            IF ~remaining.ok THEN None
            ELSE Validated(ExtractFields(Split(remaining.val, pattern.delimiter),
                                         filename, pattern, conf.printer_names,
                                         1, EmptyDict))
    IN  Parsed(PrefixRemaining(filename, pattern))

\* FilenamePattern.__lt__
PatternLt(a, b) == a.priority > b.priority

\* insert p into the sorted list: before the first element it is less than
InsertSorted(sorted, p) ==
    LET Lt(q) == PatternLt(p, q)
        i == FirstIndex([idx \in 1..Len(sorted) |-> Lt(sorted[idx])])
    IN  IF i = 0 THEN Append(sorted, p)
        ELSE SubSeq(sorted, 1, i - 1) \o << p >> \o SubSeq(sorted, i, Len(sorted))

\* a matcher that keeps the patterns in the order it was handed them
SortedPatterns_AsGiven(patterns) == patterns

RECURSIVE SortedPatterns(_)
\* sorted(patterns): stable, by __lt__ only
SortedPatterns(patterns) ==
    IF Len(patterns) = 0 THEN << >>
    ELSE InsertSorted(SortedPatterns(SubSeq(patterns, 1, Len(patterns) - 1)),
                      patterns[Len(patterns)])

RECURSIVE FirstMatch(_, _, _, _)
\* the loop of match over self.patterns, from pattern i on
FirstMatch(name, patterns, conf, i) ==
    IF i > Len(patterns) THEN None
    ELSE LET Returned(result) ==
                 IF result.ok THEN result ELSE FirstMatch(name, patterns, conf, i + 1)
         IN  Returned(_try_pattern(name, patterns[i], conf))

\* PatternMatcher(patterns, ..).match(filename); conf.patterns is the list
\* handed to the constructor
match(filename, conf) ==
    FirstMatch(Replace(Stem(filename), "+", " "), SortedPatterns(conf.patterns), conf, 1)

-----------------------------------------------------------------------------
(* ProfileOrganizer: the conflict resolver *)

\* the characters of file names and alias keys, in code point order
AsciiOrder == " +-.0123456789ABCDEFGHIJKLMNOPQRSTUVWXYZ_abcdefghijklmnopqrstuvwxyz"

Ord(c) == IndexOf(c, AsciiOrder)

RECURSIVE StrLess(_, _)
\* a < b on str: the first differing character decides, a proper prefix is less
StrLess(a, b) ==
    IF b = "" THEN FALSE
    ELSE IF a = "" THEN TRUE
    ELSE IF Char(a, 1) = Char(b, 1) THEN StrLess(StrFrom(a, 1), StrFrom(b, 1))
    ELSE Ord(Char(a, 1)) < Ord(Char(b, 1))

RECURSIVE SortedStrings(_)
\* sorted(keys)
SortedStrings(keys) ==
    IF Len(keys) = 0 THEN << >>
    ELSE LET k == keys[Len(keys)]
             rest == SortedStrings(SubSeq(keys, 1, Len(keys) - 1))
             Gt(x) == StrLess(k, x)
             i == FirstIndex([idx \in 1..Len(rest) |-> Gt(rest[idx])])
         IN  IF i = 0 THEN Append(rest, k)
             ELSE SubSeq(rest, 1, i - 1) \o << k >> \o SubSeq(rest, i, Len(rest))

RECURSIVE CandidatesFrom(_, _, _, _)
\* the loop of _find_printer_candidates over PRINTER_NAMES.items(), from item i
\* on; dict maps each full name found so far to the longest key found for it
CandidatesFrom(name_lower, printer_names, i, dict) ==
    IF i > Len(printer_names) THEN dict
    ELSE LET key == printer_names[i].key
             full_name == printer_names[i].val
         IN  CandidatesFrom(name_lower, printer_names, i + 1,
                 IF Contains(name_lower, Lower(key))
                    /\ (~DictHas(dict, full_name)
                        \/ Len(key) > Len(DictGet(dict, full_name)))
                 THEN DictSet(dict, full_name, key)
                 ELSE dict)

\* list of (printer_key, full_name), one per full name, as [key, val] records
_find_printer_candidates(filename, printer_names) ==
    LET dict == CandidatesFrom(Lower(filename), printer_names, 1, << >>)
    IN  [i \in 1..Len(dict) |-> [key |-> dict[i].val, val |-> dict[i].key]]

_get_preference_key(candidates) ==
    Join("-", SortedStrings([i \in 1..Len(candidates) |-> candidates[i].key]))

\* a resolver that never finds a global preference
_check_global_preference_None(candidates, preferences) == None

_check_global_preference(candidates, preferences) ==
    LET pref_key == _get_preference_key(candidates) IN
    IF DictHas(preferences, pref_key)
    THEN Some(DictGet(preferences, pref_key))
    ELSE None

\* a save that never reaches the file
SaveDoc_Skip(file, doc, save_ok) == file

\* what a save of doc leaves in the file: the whole document, or the old
\* content when the write fails (the exception is logged and swallowed)
SaveDoc(file, doc, save_ok) == IF save_ok THEN doc ELSE file

\* a prompt that records an empty choice for the file whatever is entered
_prompt_for_printer_SkipRecords(filename, candidates, st, answer, save_ok) ==
    [st |-> [st EXCEPT !.user_choices = DictSet(@, filename, "")], ret |-> None]

\* a prompt that takes the alias key of the chosen candidate for its name
_prompt_for_printer_Key(filename, candidates, st, answer, save_ok) ==
    IF answer = 0 THEN [st |-> st, ret |-> None]
    ELSE LET chosen == candidates[answer].key
             uc == DictSet(st.user_choices, filename, chosen)
             pref_key == _get_preference_key(candidates)
             gp == DictSet(st.global_preferences, pref_key, chosen)
         IN  [st |-> [user_choices |-> uc,
                      choices_file |-> SaveDoc(st.choices_file, uc, save_ok[1]),
                      global_preferences |-> gp,
                      prefs_file |-> SaveDoc(st.prefs_file, gp, save_ok[2])],
              ret |-> Some(chosen)]

\* a prompt that records the choice for the file only, not as a global rule
_prompt_for_printer_NoRule(filename, candidates, st, answer, save_ok) ==
    IF answer = 0 THEN [st |-> st, ret |-> None]
    ELSE LET chosen == candidates[answer].val
             uc == DictSet(st.user_choices, filename, chosen)
         IN  [st |-> [user_choices |-> uc,
                      choices_file |-> SaveDoc(st.choices_file, uc, save_ok[1]),
                      global_preferences |-> st.global_preferences,
                      prefs_file |-> st.prefs_file],
              ret |-> Some(chosen)]

\* The resolver's state st: the two in-memory caches and the two files.
\* _prompt_for_printer with the user's final answer: 0 for 'q', else a number
\* in 1..len(candidates); returns the new state, the chosen name or None
_prompt_for_printer(filename, candidates, st, answer, save_ok) ==
    IF answer = 0 THEN [st |-> st, ret |-> None]
    ELSE LET chosen == candidates[answer].val
             uc == DictSet(st.user_choices, filename, chosen)
             pref_key == _get_preference_key(candidates)
             gp == DictSet(st.global_preferences, pref_key, chosen)
         IN  [st |-> [user_choices |-> uc,
                      choices_file |-> SaveDoc(st.choices_file, uc, save_ok[1]),
                      global_preferences |-> gp,
                      prefs_file |-> SaveDoc(st.prefs_file, gp, save_ok[2])],
              ret |-> Some(chosen)]

\* _get_printer_name_interactive from `candidates = ...` on, past the test of
\* the per-file cache
ResolveUncached(filename, detected_printer, st, conf, is_interactive, answer, save_ok) ==
    LET candidates == _find_printer_candidates(filename, conf.printer_names) IN
    IF Len(candidates) > 1
    THEN LET global_pref == _check_global_preference(candidates,
                                                     st.global_preferences) IN
         IF global_pref.ok /\ global_pref.val # ""
         THEN [st |-> st, ret |-> global_pref.val, prompted |-> FALSE]
         ELSE IF is_interactive
         THEN LET r == _prompt_for_printer(filename, candidates, st, answer,
                                           save_ok)
              IN  [st |-> r.st,
                   ret |-> IF r.ret.ok /\ r.ret.val # "" THEN r.ret.val
                           ELSE detected_printer,
                   prompted |-> TRUE]
         ELSE [st |-> st, ret |-> detected_printer, prompted |-> FALSE]
    ELSE [st |-> st, ret |-> detected_printer, prompted |-> FALSE]

\* a resolver that does not look into the per-file cache
_get_printer_name_interactive_NoCache(filename, detected_printer, st, conf, is_interactive, answer, save_ok) ==
    ResolveUncached(filename, detected_printer, st, conf, is_interactive, answer,
                    save_ok)

\* returns [st, ret, prompted]: the new state, the printer name returned and
\* whether _prompt_for_printer was invoked
_get_printer_name_interactive(filename, detected_printer, st, conf, is_interactive, answer, save_ok) ==
    IF DictHas(st.user_choices, filename)
    THEN [st |-> st, ret |-> DictGet(st.user_choices, filename), prompted |-> FALSE]
    ELSE ResolveUncached(filename, detected_printer, st, conf, is_interactive,
                         answer, save_ok)

_apply_printer_remapping(printer_name, printer_remappings) ==
    IF DictHas(printer_remappings, printer_name)
    THEN DictGet(printer_remappings, printer_name)
    ELSE printer_name

\* (printer_name, brand, paper_type), or None for Python's (None, None, None)
extract_printer_and_paper_info(filename, conf) ==
    LET Remapped(result) ==
            IF result.ok
            THEN Some(<< _apply_printer_remapping(result.val[1],
                                                  conf.printer_remappings),
                         result.val[2], result.val[3] >>)
            ELSE None
    IN  Remapped(match(filename, conf))

-----------------------------------------------------------------------------
(* ICCProfileUpdater *)

ICC_SIGNATURE == << 97, 99, 115, 112 >>      \* b'acsp'

DESC_TAG == << 100, 101, 115, 99 >>          \* b'desc'

OTHER_TAG == << 99, 112, 114, 116 >>         \* b'cprt', some other tag

SigOffset == 36

HeaderLen == 128

TagTableOffset == 128

TagEntriesOffset == 132

TagEntryLen == 12

DescHeaderLen == 12

MaxDescLen == 255

Alignment == 4

\* str.encode('ascii', errors='replace'): a code point above 127 becomes b'?'
EncodeAscii(text) == [i \in 1..Len(text) |-> IF text[i] > 127 THEN 63 ELSE text[i]]

\* a header check that forgets the signature
validate_header_NoSignature(data) == Len(data) >= HeaderLen

validate_header(data) ==
    IF Len(data) < HeaderLen THEN FALSE
    ELSE Slice(data, SigOffset, SigOffset + 4) = ICC_SIGNATURE

RECURSIVE ScanTagTable(_, _, _, _)
\* the for loop of find_tag, from entry i on
ScanTagTable(data, tag_sig, i, tag_count) ==
    IF i >= tag_count THEN None
    ELSE LET entry_offset == TagEntriesOffset + i * TagEntryLen IN
         IF entry_offset + TagEntryLen > Len(data) THEN None
         ELSE LET entry_sig == Slice(data, entry_offset, entry_offset + 4)
                  tag_offset == Unpack32(Slice(data, entry_offset + 4, entry_offset + 8))
                  tag_size == Unpack32(Slice(data, entry_offset + 8, entry_offset + 12))
              IN  IF entry_sig = tag_sig THEN Some(<<tag_offset, tag_size>>)
                  ELSE ScanTagTable(data, tag_sig, i + 1, tag_count)

\* a scan that takes the table to be as long as the data allows
find_tag_NoCount(data, tag_sig) ==
    IF Len(data) < TagEntriesOffset THEN None
    ELSE ScanTagTable(data, tag_sig, 0, Len(data))

find_tag(data, tag_sig) ==
    IF Len(data) < TagEntriesOffset THEN None
    ELSE ScanTagTable(data, tag_sig, 0,
                      Unpack32(Slice(data, TagTableOffset, TagTableOffset + 4)))

\* a tag whose length field leaves the terminator out
DescBody_NoTerminator(desc_ascii) ==
    DESC_TAG \o Zeros(4) \o Pack32(Len(desc_ascii)) \o desc_ascii \o << 0 >>

\* 'desc' + reserved + length + text + terminator
DescBody(desc_ascii) ==
    DESC_TAG \o Zeros(4) \o Pack32(Len(desc_ascii) + 1) \o desc_ascii \o << 0 >>

\* data[:old_offset] + desc_data + data[old_offset + old_size:]
Splice(data, old_offset, old_size, desc_data) ==
    Slice(data, 0, old_offset) \o desc_data \o SliceFrom(data, old_offset + old_size)

update_description_tag(data, new_description) ==
    LET tag_info == find_tag(data, DESC_TAG) IN
    IF ~tag_info.ok THEN None
    ELSE
    LET old_offset == tag_info.val[1]
        old_size == tag_info.val[2]
        desc_ascii == Slice(EncodeAscii(new_description), 0, MaxDescLen)
        body == DescBody(desc_ascii)
        padding == (Alignment - (Len(body) % Alignment)) % Alignment
        desc_data == body \o Zeros(padding)
        new_size == Len(desc_data)
    IN  IF new_size <= old_size
        THEN Some(Splice(data, old_offset, old_size,
                         desc_data \o Zeros(old_size - new_size)))
        ELSE LET max_desc_len == old_size - DescHeaderLen IN
             IF max_desc_len <= 0 THEN None
             ELSE LET short == Slice(EncodeAscii(new_description), 0, max_desc_len - 1)
                      body2 == DescBody(short)
                  IN  Some(Splice(data, old_offset, old_size,
                                  body2 \o Zeros(old_size - Len(body2))))

\* process_profile on the file (disk, stem); read_ok, write_res are what the
\* file system does: read_icc_profile returns None on any error; open(.., 'wb')
\* either fails (file untouched) or truncates the file, and f.write may then
\* still fail after `kept` bytes.
ProcessProfileResult(old, name, read_ok, write_res, kept) ==
    LET profile_data == IF read_ok THEN Some(old) ELSE None IN
    IF ~profile_data.ok \/ profile_data.val = << >>
    THEN [ret |-> FALSE, disk |-> old, wrote |-> FALSE]
    ELSE IF ~validate_header(profile_data.val)
    THEN [ret |-> FALSE, disk |-> old, wrote |-> FALSE]
    ELSE LET updated_data == update_description_tag(profile_data.val, name) IN
         IF ~updated_data.ok \/ updated_data.val = << >>
         THEN [ret |-> FALSE, disk |-> old, wrote |-> FALSE]
         ELSE CASE write_res = "ok" ->
                     [ret |-> TRUE, disk |-> updated_data.val, wrote |-> TRUE]
                [] write_res = "open_failed" ->
                     [ret |-> FALSE, disk |-> old, wrote |-> FALSE]
                [] write_res = "write_failed" ->
                     [ret |-> FALSE, disk |-> Slice(updated_data.val, 0, kept),
                      wrote |-> TRUE]

-----------------------------------------------------------------------------
(* Configurations *)

\* an excerpt of DEFAULT_PRINTER_NAMES, in its order
DefaultPrinterNames ==
    << [key |-> "PRO-100", val |-> "Canon Pixma PRO-100"],
       [key |-> "pro100",  val |-> "Canon Pixma PRO-100"],
       [key |-> "Can8400", val |-> "Canon iPF8400"],
       [key |-> "P700",    val |-> "Epson P700"],
       [key |-> "P900",    val |-> "Epson P900"],
       [key |-> "SC-P900", val |-> "Epson P900"],
       [key |-> "P7570",   val |-> "Epson P7570"],
       [key |-> "P9570",   val |-> "Epson P9570"] >>

\* an excerpt of DEFAULT_BRAND_NAME_MAPPINGS
DefaultBrandNameMappings ==
    << [key |-> "cifa", val |-> "Canson"],
       [key |-> "HFA",  val |-> "Hahnemuehle"],
       [key |-> "MOAB", val |-> "MOAB"],
       [key |-> "Moab", val |-> "MOAB"] >>

\* an excerpt of DEFAULT_PRINTER_REMAPPINGS
DefaultPrinterRemappings ==
    << [key |-> "Canon iPF8400", val |-> "Canon iPF6450"],
       [key |-> "Epson P700",    val |-> "Epson P900"] >>

FilenamePattern(name, priority, prefix, ci, delimiter, structure, brand_value, ptp, variants) ==
    [name |-> name, priority |-> priority, prefix |-> prefix,
     prefix_case_insensitive |-> ci, delimiter |-> delimiter,
     structure |-> structure, brand_value |-> brand_value,
     paper_type_processing |-> ptp, variants |-> variants]

PaperTypeProcessing(format, remove_brand) ==
    [format |-> format, remove_brand |-> remove_brand]

PatternVariant(prefix, prefix_length) ==
    [prefix |-> prefix, prefix_length |-> prefix_length]

\* the patterns of _build_default_pattern_matcher, in the order of its list
DefaultPatterns ==
    << FilenamePattern("moab_profiles", 100, Some("MOAB "), TRUE, " ",
           << FieldDefinition("paper_type", PosBefore, "none"),
              FieldDefinition("printer", PosNone, "key_search"),
              FieldDefinition("code", PosAfter, "none") >>,
           Some("MOAB"), PaperTypeProcessing(TRUE, None), << >>),
       FilenamePattern("epson_sc_files", 90, Some("EPSON SC-"), FALSE, " ",
           << FieldDefinition("printer", PosIndex(0), "none"),
              FieldDefinition("brand", PosIndex(1), "none"),
              FieldDefinition("paper_type", PosRange(2), "none") >>,
           None, PaperTypeProcessing(TRUE, None), << >>),
       FilenamePattern("cifa_profiles", 80, Some("cifa_"), TRUE, "_",
           << FieldDefinition("printer", PosIndex(0), "none"),
              FieldDefinition("paper_type", PosRange(1), "none") >>,
           Some("Canson"), PaperTypeProcessing(TRUE, None), << >>),
       FilenamePattern("hfa_profiles", 85, Some("HFA"), FALSE, "_",
           << FieldDefinition("printer", PosIndex(0), "none"),
              FieldDefinition("mk_pk", PosIndex(1), "none"),
              FieldDefinition("paper_type", PosRange(2), "none") >>,
           Some("Hahnemuehle"), PaperTypeProcessing(TRUE, Some("Hahnemuehle")),
           << PatternVariant("HFAMetallic_", 12), PatternVariant("HFAPhoto_", 9),
              PatternVariant("HFA_", 4) >>),
       FilenamePattern("red_river_profiles", 75, Some("RR "), FALSE, " ",
           << FieldDefinition("paper_type", PosBefore, "none"),
              FieldDefinition("printer", PosNone, "key_search") >>,
           Some("Red River"), PaperTypeProcessing(TRUE, Some("Ep")), << >>),
       FilenamePattern("fallback_printer_detection", 10, None, TRUE, " ",
           << FieldDefinition("printer", PosNone, "substring"),
              FieldDefinition("paper_type", PosRemaining, "none") >>,
           Some("Unknown"), PaperTypeProcessing(TRUE, None), << >>) >>

\* what _load_config leaves when there is no config.yaml
DefaultConf ==
    [printer_names |-> DefaultPrinterNames,
     brand_name_mappings |-> DefaultBrandNameMappings,
     printer_remappings |-> DefaultPrinterRemappings,
     patterns |-> DefaultPatterns]

-----------------------------------------------------------------------------
(* The resolver specification: the calls organize_profiles makes of          *)
(* _get_printer_name_interactive, over successive runs of the program        *)

MaxCalls == 2

MaxRuns == 2

ICCUnused ==
    /\ disk = << >>
    /\ stem = << >>
    /\ udt = [called |-> FALSE, data |-> << >>, out |-> None]
    /\ ft = [called |-> FALSE, data |-> << >>, sig |-> << >>, out |-> None]
    /\ pp = [called |-> FALSE, old |-> << >>, read_ok |-> FALSE,
             ret |-> FALSE, wrote |-> FALSE]

\* names in which the keys P700 and P900 are found (twice), SC-P900 and P700
\* (the same two devices), and P7570 alone
ResolverFilenames ==
    { "MOAB Entrada P700 P900.icc", "MOAB Lasal P900 P700.icc",
      "RR Arctic SC-P900 P700.icc", "RR UPSat P7570.icc" }

NoCall ==
    [called |-> FALSE, filename |-> "", detected_printer |-> "",
     user_choices |-> << >>, global_preferences |-> << >>,
     choices_file |-> << >>, prefs_file |-> << >>, resolved |-> << >>,
     interactive |-> FALSE, answer |-> 0, save_ok |-> <<FALSE, FALSE>>,
     ret |-> "", prompted |-> FALSE]

\* the caches of a first run: no cache file exists yet
EmptyCaches ==
    /\ user_choices = << >>
    /\ global_preferences = << >>
    /\ choices_file = << >>
    /\ prefs_file = << >>

CallsUnused ==
    /\ last = NoCall
    /\ resolved = << >>
    /\ runs = 0
    /\ calls = 0

OrganizerUnused ==
    /\ dry_run = TRUE
    /\ source = << >>
    /\ output = << >>
    /\ operations = << >>
    /\ pdf_duplicates = << >>
    /\ files_renamed = << >>
    /\ files_deleted = << >>
    /\ unparsed = << >>
    /\ pdf_files = << >>
    /\ pc = 0

NoLookup == [called |-> FALSE, key |-> "", part |-> "", of_key |-> None, of_part |-> None]

NoTry ==
    [called |-> FALSE, filename |-> "", pattern |-> DefaultPatterns[1], out |-> None]

NoKeys ==
    [called |-> FALSE, filename |-> "", other |-> "",
     first |-> << >>, reordered |-> << >>, second |-> << >>,
     first_key |-> "", reordered_key |-> "", second_key |-> ""]

RuleUnused ==
    /\ names = << >>
    /\ xf = NoLookup
    /\ tried = NoTry
    /\ formatted = << >>
    /\ keyed = NoKeys

MatcherUnused ==
    /\ catalog = << >>
    /\ fname = ""
    /\ matched = None
    /\ RuleUnused

\* a node of the document yaml.safe_load returns: its kind ("list", "dict",
\* "str", "int", "null", or "absent" for a key that is not there) and its
\* items
Node(kind, items) == [kind |-> kind, items |-> items]

\* a section of config.yaml that is not there
Missing == Node("missing", << >>)

NoConfigFile ==
    [exists |-> FALSE,
     doc |-> [kind |-> "dict", printer_names |-> Missing,
              brand_name_mappings |-> Missing, printer_remappings |-> Missing,
              filename_patterns |-> Missing]]

NotLoaded ==
    [done |-> FALSE, printer_names |-> << >>, brand_name_mappings |-> << >>,
     printer_remappings |-> << >>, patterns |-> << >>]

ConfigUnused ==
    /\ config = NoConfigFile
    /\ loaded = NotLoaded

\* a first run: no cache file exists yet
InitResolver ==
    /\ interactive \in BOOLEAN
    /\ EmptyCaches
    /\ last = NoCall
    /\ resolved = << >>
    /\ runs = 1
    /\ calls = 0
    /\ OrganizerUnused
    /\ MatcherUnused
    /\ ICCUnused
    /\ ConfigUnused

\* the full names of the candidates found in a filename
CandidateDevices(filename, printer_names) ==
    LET candidates == _find_printer_candidates(filename, printer_names)
    IN  {candidates[i].val : i \in 1..Len(candidates)}

\* the answers a prompt over the candidates can end with: 0 for 'q', else a
\* number in 1..len(candidates); no prompt is possible for fewer than two
PromptAnswers(candidates) ==
    IF Len(candidates) > 1 THEN 0..Len(candidates) ELSE {0}

\* the outcomes of the two saves that follow a choice
SaveOutcomes(answer) ==
    IF answer = 0 THEN {<<TRUE, TRUE>>} ELSE BOOLEAN \X BOOLEAN

\* the profile files a source directory is drawn from: an ambiguous name,
\* the same name in a subdirectory, a name only the fallback rule matches
\* (brand 'Unknown'), a name no rule matches, a name with an empty brand part
\* and a macOS resource fork
ProfilePool ==
    { [dirs |-> <<"profiles">>, name |-> "MOAB Entrada P700 P900.icc", content |-> 11],
      [dirs |-> <<"copy", "profiles">>, name |-> "MOAB Entrada P700 P900.icc",
       content |-> 12],
      [dirs |-> <<"profiles">>, name |-> "abc SC-P900 PhotoLuster260.icm",
       content |-> 13],
      [dirs |-> <<"profiles">>, name |-> "nothing here.icc", content |-> 14],
      [dirs |-> <<"profiles">>, name |-> "EPSON SC-P900  Canson x.emy2",
       content |-> 15],
      [dirs |-> <<"profiles">>, name |-> "._MOAB Lasal P900.icc", content |-> 16] }

ProfileNames == {f.name : f \in ProfilePool}

\* a test that lets a file without a brand through
IsParsed_AnyBrand(info) == info.ok /\ info.val[1] # ""

\* the test of organize_profiles on the triple: `not printer or not brand`
\* sends the file to the unparsed ones
IsParsed(info) == info.ok /\ info.val[1] # "" /\ info.val[2] # ""

\* self.extract_printer_and_paper_info(file_path.name) under the built-in
\* configuration, for each name the specifications use
ParsedTable ==
    [name \in ResolverFilenames \cup ProfileNames |->
        extract_printer_and_paper_info(name, DefaultConf)]

\* the calls organize_profiles can make: a file that
\* extract_printer_and_paper_info parsed, with the device it returned
ResolverCalls ==
    {[filename |-> f, detected_printer |-> ParsedTable[f].val[1]] :
        f \in {g \in ResolverFilenames : IsParsed(ParsedTable[g])}}

\* one call of the resolver by organize_profiles; answer is what the user
\* finally enters at the prompt, save_ok whether each of the two saves succeeds
Resolve ==
    /\ calls < MaxCalls
    /\ \E call \in ResolverCalls :
       \E candidates \in {_find_printer_candidates(call.filename,
                                                   DefaultConf.printer_names)} :
       \E answer \in PromptAnswers(candidates) :
       \E save_ok \in SaveOutcomes(answer) :
       \E r \in {_get_printer_name_interactive(call.filename, call.detected_printer,
                    [user_choices |-> user_choices,
                     choices_file |-> choices_file,
                     global_preferences |-> global_preferences,
                     prefs_file |-> prefs_file],
                    DefaultConf, interactive, answer, save_ok)} :
          /\ user_choices' = r.st.user_choices
          /\ choices_file' = r.st.choices_file
          /\ global_preferences' = r.st.global_preferences
          /\ prefs_file' = r.st.prefs_file
          /\ last' = [called |-> TRUE, filename |-> call.filename,
                      detected_printer |-> call.detected_printer,
                      user_choices |-> user_choices,
                      global_preferences |-> global_preferences,
                      choices_file |-> choices_file,
                      prefs_file |-> prefs_file,
                      resolved |-> resolved,
                      interactive |-> interactive,
                      answer |-> IF r.prompted THEN answer ELSE 0,
                      save_ok |-> IF r.prompted /\ answer # 0 THEN save_ok
                                  ELSE <<FALSE, FALSE>>,
                      ret |-> r.ret, prompted |-> r.prompted]
          /\ resolved' =
                IF r.prompted /\ answer # 0
                THEN Append(resolved,
                         [filename |-> call.filename,
                          devices |-> {candidates[i].val : i \in 1..Len(candidates)},
                          key |-> _get_preference_key(candidates),
                          device |-> r.ret,
                          run |-> runs,
                          saved |-> save_ok[2]])
                ELSE resolved
    /\ calls' = calls + 1
    /\ UNCHANGED <<interactive, runs>>
    /\ UNCHANGED <<organizerVars, matcherVars, iccVars, configVars>>

\* the next run of the program: __init__ loads both caches from their files
NewRun ==
    /\ runs < MaxRuns
    /\ runs' = runs + 1
    /\ \E i \in BOOLEAN : interactive' = i
    /\ user_choices' = choices_file
    /\ global_preferences' = prefs_file
    /\ last' = NoCall
    /\ UNCHANGED <<choices_file, prefs_file, resolved, calls>>
    /\ UNCHANGED <<organizerVars, matcherVars, iccVars, configVars>>

NextResolver == Resolve \/ NewRun

SpecResolver == InitResolver /\ [][NextResolver]_vars

-----------------------------------------------------------------------------
(* ProfileOrganizer: organize_profiles, organize_pdfs and the file system    *)
(* A file is [dirs, name, content]: the names of its directories from its    *)
(* parent upwards, its name and its bytes; its path is [dirs, name].         *)

EndsWith(s, p) == Len(p) <= Len(s) /\ SubSeq(s, Len(s) - Len(p) + 1, Len(s)) = p

RECURSIVE Str(_)
\* str(n) for n >= 0
Str(n) ==
    IF n < 10 THEN Char(DigitChars, n + 1)
    ELSE Str(n \div 10) \o Char(DigitChars, (n % 10) + 1)

RECURSIVE LStripDots(_)
\* s.lstrip('.')
LStripDots(s) == IF s # "" /\ Char(s, 1) = "." THEN LStripDots(StrFrom(s, 1)) ELSE s

PathOf(file) == [dirs |-> file.dirs, name |-> file.name]

\* profiles_dir.rglob('*' + ext): the files whose name ends with ext, in the
\* order of the listing
Rglob(files, ext) == SelectSeq(files, LAMBDA f : EndsWith(f.name, ext))

\* the three lists of _find_profile_files without the resource forks,
\* concatenated as organize_profiles concatenates them
_find_profile_files(files) ==
    LET NotFork(f) == ~Contains(f.name, "._")
    IN  SelectSeq(Rglob(files, ".icc"), NotFork)
            \o SelectSeq(Rglob(files, ".icm"), NotFork)
            \o SelectSeq(Rglob(files, ".emy2"), NotFork)

\* returns the filename and the updated existing_names
generate_new_filename(printer, brand, paper_type, extension, existing_names) ==
    LET base_name == printer \o " - " \o brand \o " - " \o paper_type IN
    IF DictHas(existing_names, base_name)
    THEN LET n == DictGet(existing_names, base_name) + 1 IN
         [existing_names |-> DictSet(existing_names, base_name, n),
          name |-> base_name \o " [" \o Str(n) \o "]." \o extension]
    ELSE [existing_names |-> DictSet(existing_names, base_name, 1),
          name |-> base_name \o "." \o extension]

RECURSIVE PlanProfiles(_, _, _, _, _, _, _)
\* the loop of organize_profiles over all_files, from file i on.  acc holds
\* operations, existing_names, the unparsed files and the resolver's state;
\* answers[i] is what the user enters if file i comes to a prompt
PlanProfiles(all_files, i, acc, conf, is_interactive, answers, save_ok) ==
    IF i > Len(all_files) THEN acc
    ELSE LET file_path == all_files[i]
             \* self.operations.append((file_path, new_path)); r is what the
             \* resolver returned, g what generate_new_filename returned
             Appended(info, r, g) ==
                 [operations |->
                      Append(acc.operations,
                             [src |-> PathOf(file_path),
                              dst |-> << r.ret, info.val[2], g.name >>]),
                  existing_names |-> g.existing_names,
                  unparsed |-> acc.unparsed,
                  st |-> r.st]
             Named(info, r) ==
                 Appended(info, r,
                          generate_new_filename(r.ret, info.val[2], info.val[3],
                                                LStripDots(Suffix(file_path.name)),
                                                acc.existing_names))
             Handled(info) ==
                 IF ~IsParsed(info)
                 THEN [acc EXCEPT !.unparsed = Append(@, PathOf(file_path))]
                 ELSE Named(info,
                            _get_printer_name_interactive(file_path.name,
                                info.val[1], acc.st, conf, is_interactive,
                                answers[i], save_ok))
         IN  PlanProfiles(all_files, i + 1, Handled(ParsedTable[file_path.name]),
                          conf, is_interactive, answers, save_ok)

RECURSIVE _execute_operations(_, _, _, _)
\* the loop of _execute_operations from operation i on: shutil.copy2 of a
\* file that exists puts its bytes at the destination, any failure is logged
\* and the loop goes on.  acc holds the output files and files_renamed
_execute_operations(ops, i, files, acc) ==
    IF i > Len(ops) THEN acc
    ELSE LET k == FirstIndex([idx \in 1..Len(files) |-> PathOf(files[idx]) = ops[i].src]) IN
         _execute_operations(ops, i + 1, files,
             IF k = 0 THEN acc
             ELSE [output |-> DictSet(acc.output, ops[i].dst, files[k].content),
                   files_renamed |->
                       Append(acc.files_renamed, << ops[i].src, ops[i].dst >>)])

\* an organizer that executes its operations in dry-run mode too
ExecuteUnlessDryRun_Always(is_dry_run, ops, files, acc) ==
    _execute_operations(ops, 1, files, acc)

\* if not self.dry_run: self._execute_operations()
ExecuteUnlessDryRun(is_dry_run, ops, files, acc) ==
    IF is_dry_run THEN acc ELSE _execute_operations(ops, 1, files, acc)

\* hashlib.sha256 of the bytes, taken as free of collisions
_hash_file(file) == [sha256 |-> file.content]

RECURSIVE _find_pdf_duplicates(_, _, _)
\* the loop of _find_pdf_duplicates from file i on, over the defaultdict
_find_pdf_duplicates(pdfs, i, dups) ==
    IF i > Len(pdfs) THEN dups
    ELSE LET file_hash == _hash_file(pdfs[i])
             group == IF DictHas(dups, file_hash) THEN DictGet(dups, file_hash)
                      ELSE << >>
         IN  _find_pdf_duplicates(pdfs, i + 1,
                 DictSet(dups, file_hash, Append(group, PathOf(pdfs[i]))))

\* a test that takes the last file of a group for the one to keep
IsPdfDuplicate_KeepLast(dups, file_hash, file_path) ==
    /\ DictHas(dups, file_hash)
    /\ DictGet(dups, file_hash)[Len(DictGet(dups, file_hash))] # file_path

\* file_hash in self.pdf_duplicates and self.pdf_duplicates[file_hash][0] != file_path
IsPdfDuplicate(dups, file_hash, file_path) ==
    /\ DictHas(dups, file_hash)
    /\ DictGet(dups, file_hash)[1] # file_path

_extract_printer_from_pdf_filename(filename, conf) ==
    LET Remapped(result) ==
            IF result.ok
            THEN Some(_apply_printer_remapping(result.val[1], conf.printer_remappings))
            ELSE None
    IN  Remapped(match(filename, conf))

RECURSIVE PrinterFromParents(_, _, _)
\* the loop of _extract_printer_from_context over the parents, from parent i on
PrinterFromParents(parents, i, conf) ==
    IF i > Len(parents) THEN "Uncategorized"
    ELSE LET parent_name == parents[i]
             Hit(e) == Contains(Lower(parent_name), Lower(e.key))
             k == FirstIndex([idx \in 1..Len(conf.printer_names) |-> Hit(conf.printer_names[idx])])
         IN  IF k # 0
             THEN _apply_printer_remapping(conf.printer_names[k].val,
                                           conf.printer_remappings)
             ELSE IF \/ Contains(parent_name, "iPF6450")
                     \/ Contains(parent_name, "ipf6450")
                     \/ Contains(parent_name, "IPF 6450")
                     \/ Contains(parent_name, "ipf 6450")
             THEN "Canon iPF6450"
             ELSE IF \/ Contains(parent_name, "PRO-100")
                     \/ Contains(parent_name, "Pro-100")
                     \/ Contains(parent_name, "pro-100")
             THEN "Canon Pixma PRO-100"
             ELSE PrinterFromParents(parents, i + 1, conf)

\* [file_path.parent] + list(file_path.parents): the parent comes twice
_extract_printer_from_context(file_path, conf) ==
    LET FromContext(printer_from_filename) ==
            IF printer_from_filename.ok /\ printer_from_filename.val # ""
            THEN printer_from_filename.val
            ELSE PrinterFromParents(<< Head(file_path.dirs) >> \o file_path.dirs,
                                    1, conf)
    IN  FromContext(_extract_printer_from_pdf_filename(file_path.name, conf))

\* the PDF files a source directory is drawn from: two with the same bytes,
\* in different directories, and one with other bytes, which has the name of
\* the second and lies in a directory of the same device
PdfPool ==
    { [dirs |-> <<"profiles">>, name |-> "MOAB P900 guide.pdf", content |-> 1],
      [dirs |-> <<"misc", "P7570 papers", "profiles">>, name |-> "guide.pdf",
       content |-> 2],
      [dirs |-> <<"Epson P7570 pack", "profiles">>, name |-> "guide.pdf",
       content |-> 1] }

\* self._extract_printer_from_context(file_path) under the built-in
\* configuration, for each PDF path the specification uses
PdfPrinterTable ==
    [path \in {PathOf(f) : f \in PdfPool} |->
        _extract_printer_from_context(path, DefaultConf)]

RECURSIVE ProcessPdfs(_, _, _, _, _)
\* the loop of organize_pdfs over pdf_files, from file i on.  acc holds the
\* source files, files_deleted and operations
ProcessPdfs(pdfs, i, acc, dups, is_dry_run) ==
    IF i > Len(pdfs) THEN acc
    ELSE LET file_path == PathOf(pdfs[i])
             file_hash == _hash_file(pdfs[i])
         IN  ProcessPdfs(pdfs, i + 1,
                 IF IsPdfDuplicate(dups, file_hash, file_path)
                 THEN [source |-> IF is_dry_run THEN acc.source
                                  ELSE SelectSeq(acc.source,
                                                 LAMBDA f : PathOf(f) # file_path),
                       files_deleted |-> Append(acc.files_deleted, file_path),
                       operations |-> acc.operations]
                 ELSE LET Organized(printer) ==
                              IF printer # ""
                              THEN [acc EXCEPT !.operations =
                                       Append(@, [src |-> file_path,
                                                  dst |-> << "PDFs", printer,
                                                             file_path.name >>])]
                              ELSE acc
                      IN  Organized(PdfPrinterTable[file_path]),
                 dups, is_dry_run)

-----------------------------------------------------------------------------
(* The organizer specification: one run of main on a source directory *)

MaxProfiles == 2

MaxPdfs == 3

\* the lists of at most n distinct elements of S
DistinctSeqs(S, n) ==
    UNION {{q \in [1..k -> S] : \A i, j \in 1..k : i < j => q[i] # q[j]} : k \in 0..n}

\* the listings of a source directory: profile files, then PDF files
Directories ==
    {p \o q : p \in DistinctSeqs(ProfilePool, MaxProfiles),
              q \in DistinctSeqs(PdfPool, MaxPdfs)}

InitOrganizer ==
    /\ interactive \in BOOLEAN
    /\ EmptyCaches
    /\ dry_run \in BOOLEAN
    /\ source \in Directories
    /\ output = << >>
    /\ operations = << >>
    /\ pdf_duplicates = << >>
    /\ files_renamed = << >>
    /\ files_deleted = << >>
    /\ unparsed = << >>
    /\ pdf_files = << >>
    /\ pc = 0
    /\ CallsUnused
    /\ MatcherUnused
    /\ ICCUnused
    /\ ConfigUnused

\* the greatest answer the prompt accepts for each file of the list: the
\* number of its candidates, 0 ('q') where no prompt can come
PromptLimits(all_files, is_interactive) ==
    [i \in 1..Len(all_files) |->
        LET candidates == _find_printer_candidates(all_files[i].name,
                                                   DefaultConf.printer_names)
        IN  IF is_interactive /\ Len(candidates) > 1 THEN Len(candidates) ELSE 0]

\* what the user may enter for each file of the list, should it be prompted
AnswerLists(limits) ==
    {a \in [DOMAIN limits -> 0..Len(DefaultPrinterNames)] :
        \A i \in DOMAIN limits : a[i] <= limits[i]}

\* organize_profiles(), called first by main
OrganizeProfiles ==
    /\ pc = 0
    /\ \E all_files \in {_find_profile_files(source)} :
       \E limits \in {PromptLimits(all_files, interactive)} :
       \E answers \in AnswerLists(limits) :
       \E save_ok \in IF \E i \in DOMAIN answers : answers[i] # 0
                      THEN BOOLEAN \X BOOLEAN ELSE {<<TRUE, TRUE>>} :
       \E plan \in {PlanProfiles(all_files, 1,
                        [operations |-> operations,
                         existing_names |-> << >>,
                         unparsed |-> unparsed,
                         st |-> [user_choices |-> user_choices,
                                 choices_file |-> choices_file,
                                 global_preferences |-> global_preferences,
                                 prefs_file |-> prefs_file]],
                        DefaultConf, interactive, answers, save_ok)} :
       \E done \in {ExecuteUnlessDryRun(dry_run, plan.operations, source,
                        [output |-> output,
                         files_renamed |-> files_renamed])} :
          /\ operations' = plan.operations
          /\ unparsed' = plan.unparsed
          /\ user_choices' = plan.st.user_choices
          /\ choices_file' = plan.st.choices_file
          /\ global_preferences' = plan.st.global_preferences
          /\ prefs_file' = plan.st.prefs_file
          /\ output' = done.output
          /\ files_renamed' = done.files_renamed
    /\ pc' = 1
    /\ UNCHANGED <<interactive, dry_run, source, pdf_duplicates, files_deleted,
                   pdf_files>>
    /\ UNCHANGED <<callVars, matcherVars, iccVars, configVars>>

\* organize_pdfs(), called by main after organize_profiles, or alone under
\* --pdfs-only
OrganizePdfs ==
    /\ pc \in {0, 1}
    /\ \E pdfs \in {Rglob(source, ".pdf")} :
        /\ pdf_files' = pdfs
        /\ IF pdfs = << >>
           THEN UNCHANGED <<source, output, operations, pdf_duplicates,
                            files_renamed, files_deleted>>
           ELSE \E dups \in {_find_pdf_duplicates(pdfs, 1, pdf_duplicates)} :
                \E acc \in {ProcessPdfs(pdfs, 1,
                                [source |-> source,
                                 files_deleted |-> files_deleted,
                                 operations |-> operations],
                                dups, dry_run)} :
                \E done \in {ExecuteUnlessDryRun(dry_run, acc.operations,
                                 acc.source,
                                 [output |-> output,
                                  files_renamed |-> files_renamed])} :
                   /\ pdf_duplicates' = dups
                   /\ source' = acc.source
                   /\ files_deleted' = acc.files_deleted
                   /\ operations' = acc.operations
                   /\ output' = done.output
                   /\ files_renamed' = done.files_renamed
    /\ pc' = 2
    /\ UNCHANGED <<dry_run, unparsed>>
    /\ UNCHANGED <<cacheVars, callVars, matcherVars, iccVars, configVars>>

NextOrganizer == OrganizeProfiles \/ OrganizePdfs

SpecOrganizer == InitOrganizer /\ [][NextOrganizer]_vars

-----------------------------------------------------------------------------
(* The matcher specification: PatternMatcher(catalog, ...).match(fname) for  *)
(* catalogs of built-in patterns handed over in every order                  *)

MaxRules == 3

Catalogs ==
    {[i \in DOMAIN q |-> DefaultPatterns[q[i]]] :
        q \in DistinctSeqs(DOMAIN DefaultPatterns, MaxRules)}

MatcherFilenames ==
    { "MOAB Lasal Luster P900.icc", "RR APJ Ep P900.icc",
      "cifa_pixmapro100_baryta310_photo.icc",
      "EPSON SC-P900 Canson BarytaPhoto.emy2",
      "HFA_CanPro100_MK_PhotoRag308.icc", "nothing here.icc",
      "MOAB P900.icc", "MOAB Lasal P900 P700.icc" }

\* the organizer's configuration with the catalog for its patterns
CatalogConf(patterns) == [DefaultConf EXCEPT !.patterns = patterns]

InitMatcher ==
    /\ catalog \in Catalogs
    /\ fname \in MatcherFilenames
    /\ matched = None
    /\ RuleUnused
    /\ interactive = FALSE
    /\ EmptyCaches
    /\ CallsUnused
    /\ OrganizerUnused
    /\ ICCUnused
    /\ ConfigUnused

\* self.pattern_matcher.match(fname)
Match ==
    /\ ~matched.ok
    /\ matched' = Some(match(fname, CatalogConf(catalog)))
    /\ UNCHANGED <<catalog, fname, names, xf, tried, formatted, keyed>>
    /\ UNCHANGED <<cacheVars, callVars, organizerVars, iccVars, configVars>>

NextMatcher == Match

SpecMatcher == InitMatcher /\ [][NextMatcher]_vars

-----------------------------------------------------------------------------
(* The rule specification: one rule tried on a name, and one alias looked    *)
(* up at a fixed index, for alias tables and rules a config.yaml can give    *)

\* the built-in table, a table with the key of Epson's P700 inside the key
\* of its P7000, a table of two Canon devices, and a table of two devices
\* with a short and a hyphenated key each
AliasTables ==
    { DefaultPrinterNames,
      << [key |-> "P700",     val |-> "Epson P700"],
         [key |-> "SC-P7000", val |-> "Epson P7000"] >>,
      << [key |-> "iPF6450", val |-> "Canon iPF6450"],
         [key |-> "Can8400", val |-> "Canon iPF8400"] >>,
      << [key |-> "Epson",      val |-> "Epson P700"],
         [key |-> "Pro",        val |-> "Epson P700 Pro"],
         [key |-> "Epson-P700", val |-> "Epson P700"],
         [key |-> "P700-Pro",   val |-> "Epson P700 Pro"] >> }

\* the spellings of a key that differ from it in letter case only
CaseVariants(key) == {key, Lower(key), Upper(key)}

\* rules of a config.yaml: the EPSON SC- rule with a fixed brand, a rule
\* that reads the device alone, a rule without a device field and a rule
\* for the profiles of one device, which it searches as a substring
ConfigPatterns ==
    << FilenamePattern("canson_epson", 70, Some("EPSON SC-"), FALSE, " ",
           << FieldDefinition("printer", PosIndex(0), "none"),
              FieldDefinition("brand", PosIndex(1), "none"),
              FieldDefinition("paper_type", PosRange(2), "none") >>,
           Some("Canson"), PaperTypeProcessing(TRUE, None), << >>),
       FilenamePattern("device_only", 50, None, FALSE, "_",
           << FieldDefinition("printer", PosIndex(0), "none") >>,
           None, PaperTypeProcessing(FALSE, None), << >>),
       FilenamePattern("no_device", 60, None, FALSE, " ",
           << FieldDefinition("brand", PosIndex(0), "none"),
              FieldDefinition("paper_type", PosRange(1), "none") >>,
           None, PaperTypeProcessing(FALSE, None), << >>),
       FilenamePattern("p900_profiles", 70, Some("P900_"), TRUE, "_",
           << FieldDefinition("printer", PosNone, "substring"),
              FieldDefinition("paper_type", PosRange(0), "none") >>,
           None, PaperTypeProcessing(TRUE, None), << >>) >>

RulePool ==
    {DefaultPatterns[i] : i \in DOMAIN DefaultPatterns}
        \cup {ConfigPatterns[i] : i \in DOMAIN ConfigPatterns}

RuleFilenames ==
    MatcherFilenames \cup
        { "EPSON SC-P900 Moab Entrada+Rag.emy2", "P900_Baryta.icc",
          "EPSON SC-P700.emy2" }

\* the matcher's tables with the alias table printer_names
RuleConf(printer_names) == [DefaultConf EXCEPT !.printer_names = printer_names]

InitRule ==
    /\ names \in AliasTables
    /\ xf = NoLookup
    /\ tried = NoTry
    /\ formatted = << >>
    /\ keyed = NoKeys
    /\ catalog = << >>
    /\ fname = ""
    /\ matched = None
    /\ interactive = FALSE
    /\ EmptyCaches
    /\ CallsUnused
    /\ OrganizerUnused
    /\ ICCUnused
    /\ ConfigUnused

\* the printer field of the cifa_ rule: FieldDefinition('printer', position=0)
DeviceField == DefaultPatterns[3].structure[1]

\* self._extract_field(parts, field_def, filename, pattern) for the printer
\* field at index 0, on an alias key and on a spelling of the key
ExtractField ==
    /\ ~xf.called
    /\ \E i \in DOMAIN names :
          \E part \in CaseVariants(names[i].key) :
             xf' = [called |-> TRUE, key |-> names[i].key, part |-> part,
                    of_key |-> _extract_field(<< names[i].key, "photo" >>,
                                  DeviceField, names[i].key, DefaultPatterns[3],
                                  names),
                    of_part |-> _extract_field(<< part, "photo" >>, DeviceField,
                                   part, DefaultPatterns[3], names)]
    /\ UNCHANGED <<catalog, fname, matched, names, tried, formatted, keyed>>
    /\ UNCHANGED <<cacheVars, callVars, organizerVars, iccVars, configVars>>

\* self._try_pattern(name_without_ext, pattern), as match calls it
TryPattern ==
    /\ ~tried.called
    /\ \E pattern \in RulePool, filename \in RuleFilenames :
          \E name \in {Replace(Stem(filename), "+", " ")} :
             tried' = [called |-> TRUE, filename |-> name, pattern |-> pattern,
                       out |-> _try_pattern(name, pattern, RuleConf(names))]
    /\ UNCHANGED <<catalog, fname, matched, names, xf, formatted, keyed>>
    /\ UNCHANGED <<cacheVars, callVars, organizerVars, iccVars, configVars>>

NextRule == ExtractField \/ TryPattern

SpecRule == InitRule /\ [][NextRule]_vars

-----------------------------------------------------------------------------
(* The preference key specification: the candidates found in two filenames   *)
(* and their preference keys, for the alias tables of the rule specification *)

\* the names whose candidates are keyed
KeyFilenames ==
    ResolverFilenames \cup
        { "Epson_P700-Pro.icc", "Pro_Epson-P700.icc", "P900_Baryta.icc" }

\* the reorderings of a list
Orderings(seq) ==
    { [i \in 1..Len(seq) |-> seq[p[i]]] :
        p \in { q \in [1..Len(seq) -> 1..Len(seq)] :
                   \A i, j \in 1..Len(seq) : q[i] = q[j] => i = j } }

\* self._get_preference_key(candidates) for the candidates that
\* self._find_printer_candidates found in a filename, for the same
\* candidates in another order, and for the candidates of a second filename
PreferenceKeys ==
    /\ ~keyed.called
    /\ \E filename \in KeyFilenames, other \in KeyFilenames :
          \E first \in {_find_printer_candidates(filename, names)},
             second \in {_find_printer_candidates(other, names)} :
             \E reordered \in Orderings(first) :
                keyed' = [called |-> TRUE, filename |-> filename,
                          other |-> other, first |-> first,
                          reordered |-> reordered, second |-> second,
                          first_key |-> _get_preference_key(first),
                          reordered_key |-> _get_preference_key(reordered),
                          second_key |-> _get_preference_key(second)]
    /\ UNCHANGED <<catalog, fname, matched, names, xf, tried, formatted>>
    /\ UNCHANGED <<cacheVars, callVars, organizerVars, iccVars, configVars>>

InitKeys ==
    /\ names \in AliasTables
    /\ keyed = NoKeys
    /\ xf = NoLookup
    /\ tried = NoTry
    /\ formatted = << >>
    /\ catalog = << >>
    /\ fname = ""
    /\ matched = None
    /\ interactive = FALSE
    /\ EmptyCaches
    /\ CallsUnused
    /\ OrganizerUnused
    /\ ICCUnused
    /\ ConfigUnused

NextKeys == PreferenceKeys

SpecKeys == InitKeys /\ [][NextKeys]_vars

-----------------------------------------------------------------------------
(* The formatting specification: self.format_paper_type applied to a paper   *)
(* type and again to its own result                                          *)

MaxLen == 4

MaxFormats == 2

\* a lowercase letter, a capital, a digit, a space and an underscore
PaperChars == {"a", "B", "1", " ", "_"}

RECURSIVE PaperTypes(_)
\* the strings of at most n of these characters
PaperTypes(n) ==
    IF n = 0 THEN {""}
    ELSE {""} \cup {c \o rest : c \in PaperChars, rest \in PaperTypes(n - 1)}

InitFormat ==
    /\ formatted \in {<< paper_type >> : paper_type \in PaperTypes(MaxLen)}
    /\ keyed = NoKeys
    /\ names = << >>
    /\ xf = NoLookup
    /\ tried = NoTry
    /\ catalog = << >>
    /\ fname = ""
    /\ matched = None
    /\ interactive = FALSE
    /\ EmptyCaches
    /\ CallsUnused
    /\ OrganizerUnused
    /\ ICCUnused
    /\ ConfigUnused

\* paper_type = self.format_paper_type(paper_type, remove_brand=None)
FormatPaperType ==
    /\ Len(formatted) <= MaxFormats
    /\ formatted' = Append(formatted,
                        _format_paper_type(formatted[Len(formatted)], None))
    /\ UNCHANGED <<catalog, fname, matched, names, xf, tried, keyed>>
    /\ UNCHANGED <<cacheVars, callVars, organizerVars, iccVars, configVars>>

NextFormat == FormatPaperType

SpecFormat == InitFormat /\ [][NextFormat]_vars

-----------------------------------------------------------------------------
(* ProfileOrganizer: loading config.yaml.  A node of the YAML document is a  *)
(* record with its kind ("missing" for a key that is not there, "null",      *)
(* "int", "str", "list", "dict") and its items.  A function that can         *)
(* raise returns a record with the flag raised.                              *)

\* config.get(key, default)
ConfigGet(node, default) == IF node.kind = "missing" THEN default ELSE node

RECURSIVE AddAliases(_, _, _, _)
\* for alias in aliases: flat[alias] = canonical_name
AddAliases(flat, aliases, i, canonical_name) ==
    IF i > Len(aliases) THEN flat
    ELSE AddAliases(DictSet(flat, aliases[i], canonical_name), aliases, i + 1,
                    canonical_name)

RECURSIVE FlattenItems(_, _, _)
\* the loop of _flatten_mapping over mapping.items(), from item i on; a value
\* that is neither a list nor hashable raises TypeError
FlattenItems(items, i, flat) ==
    IF i > Len(items) THEN [raised |-> FALSE, flat |-> flat]
    ELSE IF items[i].val.kind = "list"
         THEN FlattenItems(items, i + 1,
                  AddAliases(flat, items[i].val.items, 1, items[i].key))
    ELSE IF items[i].val.kind = "str"
         THEN FlattenItems(items, i + 1,
                  DictSet(flat, items[i].val.items[1], items[i].key))
    ELSE [raised |-> TRUE, flat |-> << >>]

\* mapping.items() raises AttributeError when mapping is not a dict
_flatten_mapping(mapping) ==
    IF mapping.kind # "dict" THEN [raised |-> TRUE, flat |-> << >>]
    ELSE FlattenItems(mapping.items, 1, << >>)

DefaultPriority == 50

\* the FieldDefinition objects of the loop over structure_raw
ParsedStructure(structure_raw) ==
    [i \in DOMAIN structure_raw.items |->
        FieldDefinition(structure_raw.items[i].field,
                        structure_raw.items[i].position,
                        structure_raw.items[i].match_type)]

\* the try block of _parse_pattern_dict raises when structure or variants
\* cannot be iterated, or an item of structure or paper_type_processing has
\* no get
ParseRaises(pattern_dict) ==
    \/ pattern_dict.structure.kind \notin {"absent", "list"}
    \/ \E i \in DOMAIN pattern_dict.structure.items :
          pattern_dict.structure.items[i].kind # "dict"
    \/ pattern_dict.variants.kind \notin {"absent", "list"}
    \/ pattern_dict.paper_type_processing.kind \notin {"absent", "dict"}

\* a mapping is parsed to a pattern, or to None when the try block raises;
\* for an entry that is not a mapping the handler raises as well, on
\* pattern_dict.get('name', 'unknown')
_parse_pattern_dict(pattern_dict) ==
    IF pattern_dict.kind # "dict" THEN [raised |-> TRUE, ret |-> None]
    ELSE IF ParseRaises(pattern_dict) THEN [raised |-> FALSE, ret |-> None]
    ELSE [raised |-> FALSE,
          ret |-> Some(FilenamePattern(
                      pattern_dict.name,
                      IF pattern_dict.priority.kind = "absent" THEN DefaultPriority
                      ELSE IF pattern_dict.priority.kind = "int"
                           THEN pattern_dict.priority.n
                      ELSE None,
                      pattern_dict.prefix,
                      IF pattern_dict.prefix_case_insensitive.ok
                      THEN pattern_dict.prefix_case_insensitive.val ELSE FALSE,
                      IF pattern_dict.delimiter.ok
                      THEN pattern_dict.delimiter.val ELSE " ",
                      ParsedStructure(pattern_dict.structure),
                      pattern_dict.brand_value,
                      IF pattern_dict.paper_type_processing.kind = "absent"
                      THEN PaperTypeProcessing(FALSE, None)
                      ELSE PaperTypeProcessing(
                               pattern_dict.paper_type_processing.format,
                               pattern_dict.paper_type_processing.remove_brand),
                      pattern_dict.variants.items))]

RECURSIVE ParseEntries(_, _, _, _)
\* the loop of _build_pattern_matcher over patterns_raw, from entry i on;
\* nulls counts the patterns appended whose priority is None
ParseEntries(items, i, patterns, nulls) ==
    IF i > Len(items)
    THEN [raised |-> FALSE, patterns |-> patterns, nulls |-> nulls]
    ELSE LET Appended(pattern) ==
                 IF pattern.raised
                 THEN [raised |-> TRUE, patterns |-> << >>, nulls |-> 0]
                 ELSE IF pattern.ret.ok
                 THEN ParseEntries(items, i + 1, Append(patterns, pattern.ret.val),
                          IF items[i].priority.kind = "null"
                          THEN nulls + 1 ELSE nulls)
                 ELSE ParseEntries(items, i + 1, patterns, nulls)
         IN  Appended(_parse_pattern_dict(items[i]))

\* pattern_matcher.patterns after _build_default_pattern_matcher
DefaultCatalog == SortedPatterns(DefaultPatterns)

\* pattern_matcher.patterns after _build_pattern_matcher(patterns_raw):
\* iterating a node that is no list raises TypeError, and so does
\* sorted(patterns) in PatternMatcher.__init__ when __lt__ meets a priority
\* that is None; every exception ends in the default matcher
_build_pattern_matcher(patterns_raw) ==
    IF patterns_raw.kind # "list" THEN DefaultCatalog
    ELSE LET Built(parsed) ==
                 IF parsed.raised THEN DefaultCatalog
                 ELSE IF Len(parsed.patterns) = 0 THEN DefaultCatalog
                 ELSE IF Len(parsed.patterns) >= 2 /\ parsed.nulls > 0
                      THEN DefaultCatalog
                 ELSE SortedPatterns(parsed.patterns)
         IN  Built(ParseEntries(patterns_raw.items, 1, << >>, 0))

\* the last lines of _load_config: `# Use defaults if config not found or
\* couldn't be parsed`
LoadedDefaults ==
    [done |-> TRUE, printer_names |-> DefaultPrinterNames,
     brand_name_mappings |-> DefaultBrandNameMappings,
     printer_remappings |-> DefaultPrinterRemappings,
     patterns |-> DefaultCatalog]

\* file: [exists, doc]; exists stands for config_path.exists() and
\* YAML_AVAILABLE, and doc.kind is "error" when open or yaml.safe_load
\* raises, "other" when the document is not a mapping (config.get raises)
_load_config(file) ==
    IF file.exists /\ file.doc.kind = "dict"
    THEN LET Flattened(printer_names, brand_name_mappings) ==
                 IF printer_names.raised \/ brand_name_mappings.raised
                 THEN LoadedDefaults
                 ELSE [done |-> TRUE, printer_names |-> printer_names.flat,
                       brand_name_mappings |-> brand_name_mappings.flat,
                       printer_remappings |->
                           ConfigGet(file.doc.printer_remappings,
                                     Node("dict", << >>)).items,
                       patterns |->
                           _build_pattern_matcher(
                               ConfigGet(file.doc.filename_patterns,
                                         Node("list", << >>)))]
         IN  Flattened(_flatten_mapping(ConfigGet(file.doc.printer_names,
                                                  Node("dict", << >>))),
                       _flatten_mapping(ConfigGet(file.doc.brand_name_mappings,
                                                  Node("dict", << >>))))
    ELSE LoadedDefaults

-----------------------------------------------------------------------------
(* The configuration specification: _load_config, as __init__ calls it, on   *)
(* a config.yaml whose sections are there or not, well formed or not         *)

MaxEntries == 2

\* the value of the key priority of an entry
Priority(kind, n) == [kind |-> kind, n |-> n]

\* an item of structure: a mapping ("dict"), or a string
FieldNode(kind, f, pos, mt) ==
    [kind |-> kind, field |-> f, position |-> pos, match_type |-> mt]

\* the value of the key paper_type_processing of an entry
FormatNode(kind, format, remove_brand) ==
    [kind |-> kind, format |-> format, remove_brand |-> remove_brand]

\* an entry of filename_patterns that is a mapping
RuleNode(name, priority, prefix, ci, delimiter, structure, brand_value, ptp, variants) ==
    [kind |-> "dict", name |-> name, priority |-> priority, prefix |-> prefix,
     prefix_case_insensitive |-> ci, delimiter |-> delimiter,
     structure |-> structure, brand_value |-> brand_value,
     paper_type_processing |-> ptp, variants |-> variants]

\* the entry of ConfigPatterns[2], under a name
DeviceOnly(name) ==
    RuleNode(name, Priority("absent", 0), None, None, Some("_"),
             Node("list", << FieldNode("dict", "printer", PosIndex(0), "none") >>),
             None, FormatNode("absent", FALSE, None), Node("absent", << >>))

\* the entries of ConfigPatterns[1] and ConfigPatterns[2], entries whose
\* structure, field, paper_type_processing or variants cannot be parsed, a
\* string, and an entry with `priority:` left empty
EntryPool ==
    { RuleNode("canson_epson", Priority("int", 70), Some("EPSON SC-"),
               Some(FALSE), Some(" "),
               Node("list", << FieldNode("dict", "printer", PosIndex(0), "none"),
                               FieldNode("dict", "brand", PosIndex(1), "none"),
                               FieldNode("dict", "paper_type", PosRange(2), "none") >>),
               Some("Canson"), FormatNode("dict", TRUE, None),
               Node("absent", << >>)),
      DeviceOnly("device_only"),
      [DeviceOnly("bad_structure") EXCEPT !.structure = Node("int", << >>)],
      [DeviceOnly("bad_field") EXCEPT
          !.structure = Node("list", << FieldNode("str", "", PosNone, "none") >>)],
      [DeviceOnly("bad_format") EXCEPT
          !.paper_type_processing = FormatNode("int", FALSE, None)],
      [DeviceOnly("bad_variants") EXCEPT !.variants = Node("null", << >>)],
      [DeviceOnly("") EXCEPT !.kind = "str"],
      [DeviceOnly("null_priority") EXCEPT !.priority = Priority("null", 0)] }

\* filename_patterns: not there, empty (`filename_patterns:`), a number,
\* and the lists of at most MaxEntries entries
RuleLists ==
    {Missing, Node("null", << >>), Node("int", << >>)}
        \cup {Node("list", items) :
                 items \in UNION {[1..n -> EntryPool] : n \in 0..MaxEntries}}

\* printer_names: not there, empty (`printer_names:`), a number, a mapping
\* from canonical names to a list of aliases or to one alias, and one with
\* a mapping for a value
AliasSections ==
    { Missing, Node("null", << >>), Node("int", << >>),
      Node("dict",
           << [key |-> "Epson P900", val |-> Node("list", << "P900", "SC-P900" >>)],
              [key |-> "Canon iPF6450", val |-> Node("str", << "iPF6450" >>)] >>),
      Node("dict", << [key |-> "Epson P900", val |-> Node("dict", << >>)] >>) }

BrandSections ==
    { Missing, Node("int", << >>),
      Node("dict", << [key |-> "MOAB", val |-> Node("list", << "Moab", "moab" >>)] >>) }

RemapSections ==
    { Missing, Node("dict", << [key |-> "Epson P700", val |-> "Epson P900"] >>) }

Documents ==
    { [kind |-> k, printer_names |-> Missing, brand_name_mappings |-> Missing,
       printer_remappings |-> Missing, filename_patterns |-> Missing] :
         k \in {"error", "other"} }
        \cup { [kind |-> "dict", printer_names |-> a, brand_name_mappings |-> b,
                printer_remappings |-> r, filename_patterns |-> l] :
                  a \in AliasSections, b \in BrandSections,
                  r \in RemapSections, l \in RuleLists }

ConfigFiles ==
    {NoConfigFile} \cup {[exists |-> TRUE, doc |-> d] : d \in Documents}

InitConfig ==
    /\ config \in ConfigFiles
    /\ loaded = NotLoaded
    /\ interactive = FALSE
    /\ EmptyCaches
    /\ CallsUnused
    /\ OrganizerUnused
    /\ MatcherUnused
    /\ ICCUnused

\* self._load_config()
LoadConfig ==
    /\ ~loaded.done
    /\ loaded' = _load_config(config)
    /\ UNCHANGED config
    /\ UNCHANGED <<cacheVars, callVars, organizerVars, matcherVars, iccVars>>

NextConfig == LoadConfig

SpecConfig == InitConfig /\ [][NextConfig]_vars

-----------------------------------------------------------------------------
(* Inputs of the ICC specification *)

MaxTagCount == 2

MaxKept == 1

\* a tag count far beyond what any file holds
HugeTagCount == 256 * 65536

\* byte p of a file where nothing else is stored: never zero, never part of a
\* signature
Filler(p) == (p % 100) + 1

EntryBytes(e) == e.sig \o Pack32(e.off) \o Pack32(e.size)

\* an n-byte file: signature at 36, tag count at 128, the entries from 132
MkProfile(n, sig, count, entries) ==
    [i \in 1..n |->
        LET p == i - 1 IN
        IF p >= SigOffset /\ p < SigOffset + 4 THEN sig[p - SigOffset + 1]
        ELSE IF p >= TagTableOffset /\ p < TagEntriesOffset
             THEN Pack32(count)[p - TagTableOffset + 1]
        ELSE IF p >= TagEntriesOffset
                /\ p < TagEntriesOffset + TagEntryLen * Len(entries)
             THEN EntryBytes(entries[((p - TagEntriesOffset) \div TagEntryLen) + 1])
                            [((p - TagEntriesOffset) % TagEntryLen) + 1]
        ELSE Filler(p)]

\* text of n characters 'A', 'B', ...
Letters(n) == [i \in 1..n |-> 65 + ((i - 1) % 26)]

FirstEntrySet ==
    [sig : {DESC_TAG, OTHER_TAG}, off : {156, 170, 200}, size : {0, 12, 13, 16, 20}]

SecondEntrySet == {[sig |-> s, off |-> 160, size |-> 16] : s \in {DESC_TAG, OTHER_TAG}}

TagCountSet == (0..MaxTagCount) \cup {HugeTagCount}

\* files too short for a header, for a tag count, for the first or for the
\* second entry of the tag table
ShortProfileSet ==
    {MkProfile(n, sig, count, <<e1, e2>>) :
        n \in {100, 130, 140, 150},
        sig \in {ICC_SIGNATURE, OTHER_TAG},
        count \in TagCountSet,
        e1 \in {e \in FirstEntrySet : e.off = 156 /\ e.size = 16},
        e2 \in SecondEntrySet}

\* files holding both entries; tag data lies in bytes 156..179, so that a span
\* at 170 of 16 or 20 bytes runs past the end and one at 200 lies beyond it
FullProfileSet ==
    {MkProfile(180, sig, count, <<e1, e2>>) :
        sig \in {ICC_SIGNATURE, OTHER_TAG},
        count \in TagCountSet,
        e1 \in FirstEntrySet, e2 \in SecondEntrySet}

\* files whose desc entry shares its 16 bytes at 156 with the second tag, or
\* declares the 16 bytes at 144, where the second entry of the tag table is
SharedProfileSet ==
    {MkProfile(180, ICC_SIGNATURE, 2,
               <<[sig |-> DESC_TAG, off |-> off, size |-> 16],
                 [sig |-> OTHER_TAG, off |-> 156, size |-> 16]>>) :
        off \in {144, 156}}

SmallProfileSet == ShortProfileSet \cup FullProfileSet \cup SharedProfileSet

\* the empty name, an ASCII name that fits 16 bytes, one with a non-ASCII
\* character, and longer ones
SmallTextSet == {<< >>, Letters(3), <<65, 233>>, Letters(4), Letters(9)}

\* files whose desc tag is large enough for the 255 character limit to matter
LargeProfileSet ==
    {MkProfile(460, ICC_SIGNATURE, 1,
               <<[sig |-> DESC_TAG, off |-> 144, size |-> size]>>) :
        size \in {264, 268, 272, 280}}

LargeTextSet == {Letters(n) : n \in {251, 255, 256, 262}}

InitICC ==
    /\ \/ disk \in SmallProfileSet /\ stem \in SmallTextSet
       \/ disk \in LargeProfileSet /\ stem \in LargeTextSet
    /\ udt = [called |-> FALSE, data |-> << >>, out |-> None]
    /\ ft = [called |-> FALSE, data |-> << >>, sig |-> << >>, out |-> None]
    /\ pp = [called |-> FALSE, old |-> << >>, read_ok |-> FALSE,
             ret |-> FALSE, wrote |-> FALSE]
    /\ interactive = FALSE
    /\ EmptyCaches
    /\ CallsUnused
    /\ OrganizerUnused
    /\ MatcherUnused
    /\ ConfigUnused

\* update_description_tag(data, new_description) applied to the file's bytes
UpdateDescriptionTag ==
    /\ udt' = [called |-> TRUE, data |-> disk,
               out |-> update_description_tag(disk, stem)]
    /\ UNCHANGED <<disk, stem, ft, pp>>
    /\ UNCHANGED <<cacheVars, callVars, organizerVars, matcherVars, configVars>>

\* find_tag(data, tag_sig) applied to the file's bytes
FindTag ==
    /\ \E tag_sig \in {DESC_TAG, OTHER_TAG} :
          ft' = [called |-> TRUE, data |-> disk, sig |-> tag_sig,
                 out |-> find_tag(disk, tag_sig)]
    /\ UNCHANGED <<disk, stem, udt, pp>>
    /\ UNCHANGED <<cacheVars, callVars, organizerVars, matcherVars, configVars>>

\* process_directory hands each file to process_profile once
ProcessProfile ==
    /\ ~pp.called
    /\ \E read_ok \in BOOLEAN, write_res \in {"ok", "open_failed", "write_failed"},
          kept \in 0..MaxKept :
        LET r == ProcessProfileResult(disk, stem, read_ok, write_res, kept) IN
           /\ pp' = [called |-> TRUE, old |-> disk, read_ok |-> read_ok,
                     ret |-> r.ret, wrote |-> r.wrote]
           /\ disk' = r.disk
           /\ UNCHANGED <<stem, udt, ft>>
           /\ UNCHANGED <<cacheVars, callVars, organizerVars, matcherVars, configVars>>

NextICC == UpdateDescriptionTag \/ FindTag \/ ProcessProfile

SpecICC == InitICC /\ [][NextICC]_vars

-----------------------------------------------------------------------------
(* The tag table, read off the bytes without find_tag *)

\* byte at 0-based position p
ByteAt(d, p) == d[p + 1]

U32At(d, p) ==
    ByteAt(d, p) * 16777216 + ByteAt(d, p + 1) * 65536
        + ByteAt(d, p + 2) * 256 + ByteAt(d, p + 3)

\* indices of the entries that lie entirely within the data and within the
\* declared tag count
TableEntries(d) ==
    IF Len(d) < TagEntriesOffset THEN {}
    ELSE 0..(Min(U32At(d, TagTableOffset),
                 (Len(d) - TagEntriesOffset) \div TagEntryLen) - 1)

DescEntries(d) ==
    {i \in TableEntries(d) :
        \A k \in 0..3 : ByteAt(d, TagEntriesOffset + TagEntryLen * i + k) = DESC_TAG[k + 1]}

FirstDescEntry(d) == CHOOSE i \in DescEntries(d) : \A j \in DescEntries(d) : i <= j

DescOffset(d) == U32At(d, TagEntriesOffset + TagEntryLen * FirstDescEntry(d) + 4)

DescSize(d) == U32At(d, TagEntriesOffset + TagEntryLen * FirstDescEntry(d) + 8)

HasSignature(d) ==
    /\ Len(d) >= SigOffset + 4
    /\ \A k \in 0..3 : ByteAt(d, SigOffset + k) = ICC_SIGNATURE[k + 1]

\* at least 132 bytes, 'acsp' at 36..39, a desc entry whose span can hold a
\* terminator after the 12-byte tag header
Patchable(d) ==
    /\ Len(d) >= TagEntriesOffset
    /\ HasSignature(d)
    /\ DescEntries(d) # {}
    /\ DescSize(d) > DescHeaderLen

-----------------------------------------------------------------------------
(* Claims about ICCProfileUpdater *)

\* C1: whenever update_description_tag returns a result, the result has the
\* length of the input, whatever offset and size the desc entry declares.
C1_LengthPreserved ==
    (udt.called /\ udt.out.ok) => Len(udt.out.val) = Len(udt.data)

\* C2: process_profile rewrites the file only when the data has at least 132
\* bytes, 'acsp' at 36..39 and a desc tag whose span holds a terminator; in
\* every other case, an unreadable file included, it returns False and the
\* file on disk is unchanged.
C2_RewriteOnlyWhenPatchable ==
    pp.called =>
        /\ (pp.wrote \/ disk # pp.old) => (pp.read_ok /\ Patchable(pp.old))
        /\ ~(pp.read_ok /\ Patchable(pp.old)) =>
                (pp.ret = FALSE /\ disk = pp.old /\ ~pp.wrote)

\* a readable file with a valid header and a desc entry too small for a
\* terminator has been processed
C2_Witness ==
    /\ pp.called /\ pp.read_ok
    /\ HasSignature(pp.old) /\ DescEntries(pp.old) # {}
    /\ ~Patchable(pp.old)

\* the data of the last call of update_description_tag holds a desc entry
FoundDesc == Len(udt.data) >= TagEntriesOffset /\ DescEntries(udt.data) # {}

\* the span of that entry lies inside the data
SpanInside == DescOffset(udt.data) + DescSize(udt.data) <= Len(udt.data)

\* the requested text is ASCII
IsAscii == \A i \in 1..Len(stem) : stem[i] < 128

\* n rounded up to a multiple of 4
RoundUp4(n) == ((n + 3) \div 4) * 4

\* the size bytes of out from position off on are 'desc', four zero bytes,
\* the big-endian number n + 1, the first n bytes of the requested text, and
\* zero bytes from there on
TagHolds(out, off, size, n) ==
    /\ Len(out) >= off + size
    /\ \A k \in 0..3 : ByteAt(out, off + k) = DESC_TAG[k + 1]
    /\ \A k \in 4..7 : ByteAt(out, off + k) = 0
    /\ U32At(out, off + 8) = n + 1
    /\ \A k \in 1..n : ByteAt(out, off + 11 + k) = stem[k]
    /\ \A k \in (12 + n)..(size - 1) : ByteAt(out, off + k) = 0

\* C13, as stated: when the desc span lies inside the file and the tag header,
\* the text and a terminator, rounded up to a multiple of 4, fit the span, the
\* span of the result holds the whole requested ASCII text, whatever its
\* length.
C13_WholeTextStored ==
    (/\ udt.called /\ FoundDesc /\ SpanInside /\ IsAscii
     /\ RoundUp4(12 + Len(stem) + 1) <= DescSize(udt.data))
    => (/\ udt.out.ok
        /\ TagHolds(udt.out.val, DescOffset(udt.data), DescSize(udt.data),
                    Len(stem)))

\* C13, amended: under the same conditions the span of the result holds the
\* first 255 characters of the requested text, that is the whole text when
\* it has at most 255 characters.
C13_TextStoredUpTo255 ==
    (/\ udt.called /\ FoundDesc /\ SpanInside /\ IsAscii
     /\ RoundUp4(12 + Len(stem) + 1) <= DescSize(udt.data))
    => (/\ udt.out.ok
        /\ TagHolds(udt.out.val, DescOffset(udt.data), DescSize(udt.data),
                    Min(Len(stem), MaxDescLen)))

\* a text of exactly 255 characters has been stored whole in a larger span
C13_Witness ==
    /\ udt.called /\ FoundDesc /\ SpanInside /\ IsAscii
    /\ Len(stem) = MaxDescLen
    /\ RoundUp4(12 + Len(stem) + 1) < DescSize(udt.data)
    /\ udt.out.ok
    /\ TagHolds(udt.out.val, DescOffset(udt.data), DescSize(udt.data), Len(stem))

\* where the tag of the result begins: at the offset of the entry, or at the
\* end of the data when the offset lies beyond it
StoredAt == Min(DescOffset(udt.data), Len(udt.data))

\* C14, as stated: when the tag header, the text and a terminator, rounded up
\* to a multiple of 4, exceed a span of size s > 12, the result holds the first
\* min(len(text), s - 13) characters of the text, a terminator and zero bytes
\* up to s bytes, the length field being the stored length plus one.
C14_TruncatedToSpan ==
    (/\ udt.called /\ FoundDesc /\ IsAscii
     /\ DescSize(udt.data) > DescHeaderLen
     /\ RoundUp4(12 + Len(stem) + 1) > DescSize(udt.data))
    => (/\ udt.out.ok
        /\ TagHolds(udt.out.val, StoredAt, DescSize(udt.data),
                    Min(Len(stem), DescSize(udt.data) - 13)))

\* C14, amended: under the same conditions the stored prefix has
\* min(len(text), 255, s - 13) characters.
C14_TruncatedToSpanAnd255 ==
    (/\ udt.called /\ FoundDesc /\ IsAscii
     /\ DescSize(udt.data) > DescHeaderLen
     /\ RoundUp4(12 + Len(stem) + 1) > DescSize(udt.data))
    => (/\ udt.out.ok
        /\ TagHolds(udt.out.val, StoredAt, DescSize(udt.data),
                    Min(Min(Len(stem), MaxDescLen), DescSize(udt.data) - 13)))

\* a text has been cut to a span that holds fewer characters, one of them at
\* least
C14_Witness ==
    /\ udt.called /\ FoundDesc /\ IsAscii /\ udt.out.ok
    /\ DescSize(udt.data) > 13
    /\ Len(stem) > DescSize(udt.data) - 13
    /\ TagHolds(udt.out.val, StoredAt, DescSize(udt.data), DescSize(udt.data) - 13)

\* C15: update_description_tag returns None exactly when find_tag finds no
\* desc entry or the size of the entry is at most 12; it leaves the bytes it
\* was given as they are.
C15_NoneIffNoRoom ==
    [][UpdateDescriptionTag =>
          /\ disk' = disk
          /\ udt'.data = disk
          /\ ~udt'.out.ok <=>
                 \/ ~(Len(disk) >= TagEntriesOffset /\ DescEntries(disk) # {})
                 \/ DescSize(disk) <= DescHeaderLen]_vars

\* None has been returned for a desc entry of exactly 12 bytes
C15_Witness ==
    /\ udt.called /\ ~udt.out.ok
    /\ FoundDesc /\ DescSize(udt.data) = DescHeaderLen

\* the entries of the last data find_tag was given that carry its signature
SigEntries ==
    {i \in TableEntries(ft.data) :
        \A k \in 0..3 :
            ByteAt(ft.data, TagEntriesOffset + TagEntryLen * i + k) = ft.sig[k + 1]}

\* C16: find_tag returns the big-endian offset and size of the lowest entry,
\* among those lying within the data and within the declared tag count, whose
\* signature is the requested one, and None when the data has fewer than 132
\* bytes or no such entry exists.
C16_FirstMatchingEntry ==
    ft.called =>
        IF Len(ft.data) < TagEntriesOffset \/ SigEntries = {}
        THEN ~ft.out.ok
        ELSE \E i \in SigEntries :
                /\ \A j \in SigEntries : i <= j
                /\ ft.out.ok
                /\ ft.out.val[1] = U32At(ft.data, TagEntriesOffset + TagEntryLen * i + 4)
                /\ ft.out.val[2] = U32At(ft.data, TagEntriesOffset + TagEntryLen * i + 8)

\* the second entry has been returned from a table whose first entry carries
\* another signature, the declared count being far beyond the data
C16_Witness ==
    /\ ft.called /\ ft.out.ok
    /\ SigEntries = {1}
    /\ U32At(ft.data, TagTableOffset) > Cardinality(TableEntries(ft.data))

\* the entries of the tag table other than the desc entry that is patched
OtherEntries(d) == TableEntries(d) \ {FirstDescEntry(d)}

\* the positions of the data that the span of entry i covers
EntrySpan(d, i) ==
    LET off == U32At(d, TagEntriesOffset + TagEntryLen * i + 4)
        size == U32At(d, TagEntriesOffset + TagEntryLen * i + 8)
    IN  {p \in 0..(Len(d) - 1) : off <= p /\ p < off + size}

\* C24: a successful update_description_tag changes only bytes inside the
\* span of the desc tag: the 128-byte header, the tag count, every entry of
\* the tag table and the bytes of every other tag are unchanged, and
\* find_tag returns the same (offset, size) for every signature before and
\* after the patch.
C24_OnlyDescSpanChanges ==
    (udt.called /\ udt.out.ok) =>
        LET d == udt.data
            o == udt.out.val
            Same(p) == p < Len(o) /\ ByteAt(o, p) = ByteAt(d, p)
        IN  /\ \A p \in (0..(Len(d) - 1)) \ EntrySpan(d, FirstDescEntry(d)) :
                  Same(p)
            /\ \A p \in 0..(TagEntriesOffset - 1) : Same(p)
            /\ \A i \in TableEntries(d) : \A k \in 0..(TagEntryLen - 1) :
                  Same(TagEntriesOffset + TagEntryLen * i + k)
            /\ \A i \in OtherEntries(d) : \A p \in EntrySpan(d, i) : Same(p)
            /\ \A tag_sig \in {DESC_TAG, OTHER_TAG} :
                  find_tag(o, tag_sig) = find_tag(d, tag_sig)

-----------------------------------------------------------------------------
(* Claims about the conflict resolver *)

\* the candidates found in the filename of the last call, and their key
LastCandidates == _find_printer_candidates(last.filename, DefaultConf.printer_names)

LastKey == _get_preference_key(LastCandidates)

LastDevices == {LastCandidates[i].val : i \in 1..Len(LastCandidates)}

CachesUnchanged ==
    /\ user_choices = last.user_choices
    /\ global_preferences = last.global_preferences
    /\ choices_file = last.choices_file
    /\ prefs_file = last.prefs_file

\* C4, as stated: once a filename with the candidate devices {X, Y} has been
\* resolved interactively to X, resolving any other filename with the same
\* candidate devices returns X and does not prompt.
C4_SameDevicesLearned ==
    last.called =>
        \A i \in 1..Len(last.resolved) :
            (/\ last.resolved[i].filename # last.filename
             /\ last.resolved[i].devices = LastDevices)
            => (last.ret = last.resolved[i].device /\ ~last.prompted)

\* an earlier interactive resolution whose rule this call can draw on: of
\* another filename, with the same alias keys, made in this run or saved to
\* the preferences document
LearnedFor(e) ==
    /\ e.filename # last.filename
    /\ e.key = LastKey
    /\ (e.run = runs \/ e.saved)

\* C4, amended: once a filename has been resolved interactively to X,
\* resolving another filename that is absent from the per-filename cache and
\* in which the same alias keys are found returns X and does not prompt, in
\* the same run and in any later run that read the saved preference.
C4_SameKeyLearned ==
    (last.called /\ ~DictHas(last.user_choices, last.filename)) =>
        \A i \in 1..Len(last.resolved) :
            LearnedFor(last.resolved[i])
            => (last.ret = last.resolved[i].device /\ ~last.prompted)

\* a later, non-interactive run resolves a second filename by the rule
\* learned in an earlier run, to a device other than the rule-driven one
C4_Witness ==
    /\ last.called /\ ~last.interactive
    /\ ~DictHas(last.user_choices, last.filename)
    /\ \E i \in 1..Len(last.resolved) :
          /\ LearnedFor(last.resolved[i])
          /\ last.ret = last.resolved[i].device
    /\ last.ret # last.detected_printer
    /\ ~last.prompted

\* the last call resolved through the global preference: a filename absent
\* from the per-filename cache, more than one candidate, the key in the cache
ResolvedByGlobalPreference ==
    /\ last.called
    /\ ~DictHas(last.user_choices, last.filename)
    /\ Len(LastCandidates) > 1
    /\ DictHas(last.global_preferences, LastKey)

\* C8, as stated: a filename resolved through the global preference is also
\* recorded, with that device, in the per-filename cache.
C8_GlobalHitRecorded ==
    ResolvedByGlobalPreference =>
        /\ DictHas(user_choices, last.filename)
        /\ DictGet(user_choices, last.filename)
               = DictGet(last.global_preferences, LastKey)

\* C8, amended: a filename resolved through the global preference gets the
\* preferred device without a prompt, and neither cache nor document changes:
\* the filename is not recorded in the per-filename cache.
C8_GlobalHitNotRecorded ==
    ResolvedByGlobalPreference =>
        /\ last.ret = DictGet(last.global_preferences, LastKey)
        /\ ~last.prompted
        /\ CachesUnchanged
        /\ ~DictHas(user_choices, last.filename)

C8_Witness ==
    /\ ResolvedByGlobalPreference
    /\ last.interactive
    /\ last.ret = DictGet(last.global_preferences, LastKey)
    /\ last.ret # last.detected_printer

\* C9: when the prompt returns a chosen device, the per-filename cache maps
\* the filename to it and the global preference cache maps the candidates'
\* key to it, and each document whose write succeeded equals its map.
C9_ChoiceRecordedAndSaved ==
    (last.called /\ last.prompted /\ last.answer # 0) =>
        /\ last.ret = LastCandidates[last.answer].val
        /\ DictHas(user_choices, last.filename)
        /\ DictGet(user_choices, last.filename) = last.ret
        /\ DictHas(global_preferences, LastKey)
        /\ DictGet(global_preferences, LastKey) = last.ret
        /\ last.save_ok[1] => choices_file = user_choices
        /\ last.save_ok[2] => prefs_file = global_preferences
        /\ ~last.save_ok[1] => choices_file = last.choices_file
        /\ ~last.save_ok[2] => prefs_file = last.prefs_file

\* a second choice of the run has been made and both documents written
C9_Witness ==
    /\ last.called /\ last.prompted /\ last.answer # 0
    /\ last.save_ok = <<TRUE, TRUE>>
    /\ Len(last.user_choices) > 0
    /\ choices_file = user_choices /\ prefs_file = global_preferences
    /\ Len(user_choices) > Len(last.user_choices)

\* C10: a filename present in the per-filename cache gets the cached device,
\* whatever the preferences, the candidates, the rule-driven device and the
\* interactive flag are; there is no prompt and no cache or document changes.
C10_CachedFileWins ==
    (last.called /\ DictHas(last.user_choices, last.filename)) =>
        /\ last.ret = DictGet(last.user_choices, last.filename)
        /\ ~last.prompted
        /\ CachesUnchanged

\* a cached filename is resolved in interactive mode while no global
\* preference exists for its candidates, to a device other than the
\* rule-driven one
C10_Witness ==
    /\ last.called /\ DictHas(last.user_choices, last.filename)
    /\ last.interactive
    /\ Len(LastCandidates) > 1
    /\ ~DictHas(last.global_preferences, LastKey)
    /\ last.ret # last.detected_printer

\* the last call found its filename in neither cache although more than one
\* candidate is in the name
Unresolved ==
    /\ last.called
    /\ ~DictHas(last.user_choices, last.filename)
    /\ Len(LastCandidates) > 1
    /\ ~DictHas(last.global_preferences, LastKey)

\* C11: for an ambiguous filename found in neither cache, when the run is not
\* interactive or the user skips the prompt, the resolver returns the
\* rule-driven device it was given and neither cache nor document changes.
C11_UnresolvedKeepsDevice ==
    (Unresolved /\ (~last.interactive \/ last.answer = 0)) =>
        /\ last.ret = last.detected_printer
        /\ CachesUnchanged

\* the user skipped the prompt of a run whose caches and documents were not
\* empty
C11_Witness ==
    /\ Unresolved /\ last.interactive /\ last.prompted /\ last.answer = 0
    /\ last.ret = last.detected_printer
    /\ Len(last.user_choices) > 0 /\ Len(last.global_preferences) > 0
    /\ Len(last.choices_file) > 0 /\ Len(last.prefs_file) > 0
    /\ CachesUnchanged

\* C12: the prompt is invoked for a filename only if the run is interactive,
\* the filename is not in the per-filename cache, more than one distinct
\* candidate device is found in the name and the global preference cache has
\* no entry for the candidates' key.
C12_PromptOnlyWhenUnresolved ==
    (last.called /\ last.prompted) =>
        /\ last.interactive
        /\ ~DictHas(last.user_choices, last.filename)
        /\ Cardinality(LastDevices) > 1
        /\ ~DictHas(last.global_preferences, LastKey)

\* a prompt came although both caches held entries for other names and keys
C12_Witness ==
    /\ last.called /\ last.prompted /\ last.answer # 0
    /\ Len(last.user_choices) > 0
    /\ Len(last.global_preferences) > 0

\* the candidate devices found in each filename the resolver is called with
FilenameDevices ==
    [f \in ResolverFilenames |-> CandidateDevices(f, DefaultConf.printer_names)]

-----------------------------------------------------------------------------
(* Claims about organize_pdfs and organize_profiles *)

InSeq(seq, x) == \E i \in 1..Len(seq) : seq[i] = x

\* C3: of the PDF files found, a file is recorded in files_deleted, and
\* deleted unless in dry-run, if and only if an earlier file of the traversal
\* has the same content; so the first file of each content is kept.
C3_FirstOfGroupKept ==
    pc = 2 =>
        \A i \in 1..Len(pdf_files) :
            LET earlier == \E j \in 1..(i - 1) :
                               pdf_files[j].content = pdf_files[i].content
            IN  /\ earlier <=> InSeq(files_deleted, PathOf(pdf_files[i]))
                /\ InSeq(source, pdf_files[i]) <=> (dry_run \/ ~earlier)

\* the files A, B, C of an executed run, A and C with the same bytes: C alone
\* has been deleted
C3_Witness ==
    /\ pc = 2 /\ ~dry_run
    /\ Len(pdf_files) = 3
    /\ pdf_files[1].content = pdf_files[3].content
    /\ pdf_files[1].content # pdf_files[2].content
    /\ files_deleted = << PathOf(pdf_files[3]) >>
    /\ InSeq(source, pdf_files[1]) /\ InSeq(source, pdf_files[2])
    /\ ~InSeq(source, pdf_files[3])

\* the profile files organize_profiles went through
ProfilesSeen == _find_profile_files(source)

Planned(file) == \E i \in 1..Len(operations) : operations[i].src = PathOf(file)

\* C6, as stated: after organize_profiles, a file whose name matches no rule
\* or whose device or brand is 'Unknown' has no operation and is reported as
\* unparsed.
C6_UnknownNotPlanned ==
    pc = 1 =>
        \A i \in 1..Len(ProfilesSeen) :
            \A info \in {ParsedTable[ProfilesSeen[i].name]} :
                (~info.ok \/ info.val[1] = "Unknown" \/ info.val[2] = "Unknown")
                => (/\ ~Planned(ProfilesSeen[i])
                    /\ InSeq(unparsed, PathOf(ProfilesSeen[i])))

\* C6, amended: after organize_profiles, a file has no operation and is
\* reported as unparsed if and only if its name matches no rule or its device
\* or brand is empty; a file whose brand is 'Unknown' is planned.
C6_UnmatchedNotPlanned ==
    pc = 1 =>
        \A i \in 1..Len(ProfilesSeen) :
            \A info \in {ParsedTable[ProfilesSeen[i].name]} :
                LET unmatched == ~info.ok \/ info.val[1] = "" \/ info.val[2] = ""
                IN  /\ unmatched => (/\ ~Planned(ProfilesSeen[i])
                                     /\ InSeq(unparsed, PathOf(ProfilesSeen[i])))
                    /\ ~unmatched => (/\ Planned(ProfilesSeen[i])
                                      /\ ~InSeq(unparsed, PathOf(ProfilesSeen[i])))

\* a file with an empty brand was left unplanned and one with the brand
\* 'Unknown' was planned
C6_Witness ==
    /\ pc = 1
    /\ \E i \in 1..Len(ProfilesSeen) :
          /\ ParsedTable[ProfilesSeen[i].name].ok
          /\ ParsedTable[ProfilesSeen[i].name].val[2] = ""
          /\ InSeq(unparsed, PathOf(ProfilesSeen[i]))
    /\ \E i \in 1..Len(operations) : operations[i].dst[2] = "Unknown"

\* C7: no device that is a key of the remapping table is the device of a
\* planned profile destination.
C7_NoRemappedDeviceInDestination ==
    \A i \in 1..Len(operations) :
        operations[i].dst[1] # "PDFs"
        => ~DictHas(DefaultPrinterRemappings, operations[i].dst[1])

Copies(i) ==
    Cardinality({j \in 1..Len(files_renamed) :
                    files_renamed[j] = << operations[i].src, operations[i].dst >>})

\* C26: in execute mode, over a run that calls organize_profiles and then
\* organize_pdfs, every planned operation is copied exactly once and
\* files_renamed holds at most one entry per planned operation.
C26_EachOperationCopiedOnce ==
    (~dry_run /\ pc >= 1) => \A i \in 1..Len(operations) : Copies(i) = 1

\* C27: no two operations planned in one run have the same destination
\* path: the k-th profile with an already used base name gets the suffix
\* ' [k]', and PDF destinations are distinct too.
C27_DistinctDestinations ==
    \A i, j \in 1..Len(operations) :
        operations[i].dst = operations[j].dst => i = j

-----------------------------------------------------------------------------
(* Claims about PatternMatcher *)

\* the name the rules are tried on
MatchedName == Replace(Stem(fname), "+", " ")

\* the rules of the catalog that succeed on the name
Succeeding ==
    {i \in 1..Len(catalog) :
        _try_pattern(MatchedName, catalog[i], CatalogConf(catalog)).ok}

Highest ==
    LET Top(ok) == CHOOSE i \in ok :
                       \A j \in ok : catalog[j].priority <= catalog[i].priority
    IN  Top(Succeeding)

\* C5: for a catalog of rules with distinct priorities, match returns the
\* result of the succeeding rule of highest priority, None when no rule
\* succeeds, whatever the order of the catalog.
C5_HighestPriorityWins ==
    matched.ok =>
        matched.val = IF Succeeding = {} THEN None
                      ELSE _try_pattern(MatchedName, catalog[Highest],
                                        CatalogConf(catalog))

\* two rules succeed with different results and the one of higher priority
\* comes later in the catalog
C5_Witness ==
    /\ matched.ok /\ matched.val.ok
    /\ \E i \in Succeeding :
          /\ i < Highest
          /\ _try_pattern(MatchedName, catalog[i], CatalogConf(catalog))
                 # matched.val

\* C17: alias lookup is case-insensitive: for every alias table, every key k
\* of it and every spelling k' that equals k up to letter case, the
\* fixed-index device field gives for the part k' the device it gives for
\* the part k.
C17_CaseInsensitiveLookup ==
    xf.called => xf.of_part = xf.of_key

-----------------------------------------------------------------------------
(* What one rule resolves, read off the rule's fields one by one *)

\* the values the fields of the tried rule resolve to, None for a field that
\* resolves to nothing; no field is looked at when the prefix does not match
FieldValues ==
    LET Values(remaining) ==
            IF ~remaining.ok THEN << >>
            ELSE [i \in DOMAIN tried.pattern.structure |->
                     _extract_field(Split(remaining.val, tried.pattern.delimiter),
                                    tried.pattern.structure[i], tried.filename,
                                    tried.pattern, names)]
    IN  Values(PrefixRemaining(tried.filename, tried.pattern))

\* the indices of the fields named f that resolved to a value
ResolvedAt(f) ==
    {i \in DOMAIN FieldValues :
        tried.pattern.structure[i].field = f /\ FieldValues[i].ok}

\* the value extracted for f: that of the last such field
ExtractedValue(f) ==
    FieldValues[CHOOSE i \in ResolvedAt(f) : \A j \in ResolvedAt(f) : j <= i].val

\* the brand alias table applied to a brand
BrandAlias(brand) ==
    LET hits == {i \in DOMAIN DefaultBrandNameMappings :
                    DefaultBrandNameMappings[i].key = brand}
    IN  IF hits = {} THEN brand
        ELSE DefaultBrandNameMappings[CHOOSE i \in hits : TRUE].val

\* the material of a result: the extracted one or 'Unknown', formatted when
\* the rule asks for it
ResultMaterial ==
    LET Formatted(material) ==
            IF tried.pattern.paper_type_processing.format
            THEN _format_paper_type(material,
                     tried.pattern.paper_type_processing.remove_brand)
            ELSE material
    IN  Formatted(IF ResolvedAt("paper_type") # {}
                  THEN ExtractedValue("paper_type") ELSE "Unknown")

\* C18 as stated: a rule yields a result iff it resolved a device field; the
\* brand of the result is the extracted brand when there is one, else the
\* rule's fixed brand when set, else 'Unknown', normalized through the brand
\* alias table; the material is the extracted one, or 'Unknown'.
C18_ExtractedBrandFirst ==
    tried.called =>
        /\ tried.out.ok <=> ResolvedAt("printer") # {}
        /\ tried.out.ok =>
              /\ tried.out.val[2] =
                    BrandAlias(IF ResolvedAt("brand") # {}
                               THEN ExtractedValue("brand")
                               ELSE IF tried.pattern.brand_value.ok
                                    THEN tried.pattern.brand_value.val
                               ELSE "Unknown")
              /\ tried.out.val[3] = ResultMaterial

\* C18, amended: a rule yields a result iff it resolved a device field; the
\* brand of the result is the rule's fixed brand when set, else the extracted
\* brand when there is one, else 'Unknown', normalized through the brand
\* alias table; the material is the extracted one, or 'Unknown', formatted
\* when the rule asks for it.
C18_FixedBrandFirst ==
    tried.called =>
        /\ tried.out.ok <=> ResolvedAt("printer") # {}
        /\ tried.out.ok =>
              /\ tried.out.val[2] =
                    BrandAlias(IF tried.pattern.brand_value.ok
                               THEN tried.pattern.brand_value.val
                               ELSE IF ResolvedAt("brand") # {}
                                    THEN ExtractedValue("brand")
                               ELSE "Unknown")
              /\ tried.out.val[3] = ResultMaterial

\* a rule with a fixed brand has given a result for a name from which it
\* extracted another brand
C18_Witness ==
    /\ tried.called
    /\ tried.out.ok
    /\ tried.pattern.brand_value.ok
    /\ ResolvedAt("brand") # {}
    /\ BrandAlias(ExtractedValue("brand")) # BrandAlias(tried.pattern.brand_value.val)
    /\ tried.out.val[2] = "Canson"

\* C29: whenever match succeeds, the device and the material of the triple
\* it returns are non-empty strings; a material for which no text could be
\* extracted is 'Unknown', never the empty string.
C29_DeviceAndMaterialNonEmpty ==
    (matched.ok /\ matched.val.ok) =>
        (matched.val.val[1] # "" /\ matched.val.val[3] # "")

-----------------------------------------------------------------------------
(* Claims about _format_paper_type *)

\* C21: material formatting is idempotent: formatting the result of a
\* formatting gives that result again (no strip token).
C21_FormatIdempotent ==
    Len(formatted) >= 3 => formatted[3] = formatted[2]

\* a paper type was formatted twice, and the first formatting put a capital
\* in front, replaced the underscore and parted the letter from the digit
C21_Witness ==
    /\ Len(formatted) >= 3
    /\ formatted[1] = "a_B1"
    /\ formatted[2] = "A B 1"

-----------------------------------------------------------------------------
(* Claims about the substring strategy *)

\* the rule tried has one device field, and it uses the substring strategy
SubstringDevice ==
    /\ tried.called
    /\ \E i \in DOMAIN tried.pattern.structure :
          /\ tried.pattern.structure[i].field = "printer"
          /\ tried.pattern.structure[i].match_type = "substring"
          /\ \A j \in DOMAIN tried.pattern.structure :
                tried.pattern.structure[j].field = "printer" => j = i

\* what is left of the name tried after the prefix of the rule
TriedRemaining == PrefixRemaining(tried.filename, tried.pattern)

\* C22: a device field with the substring strategy searches the alias keys,
\* whatever their case, in the remainder of the name after the rule's prefix:
\* the rule gives the canonical name of the longest key found there, and
\* the field is unresolved (the rule fails) when no key occurs there.
C22_SubstringInRemainder ==
    (SubstringDevice /\ TriedRemaining.ok) =>
        LET Device(k) == IF k = 0 THEN tried.out = None
                         ELSE /\ tried.out.ok
                              /\ tried.out.val[1] = names[k].val
        IN  Device(BestKeyIndex(Lower(TriedRemaining.val), names))

\* the rule tried finds its device by key search and its material before or
\* after the device token, and it matched
KeySearchAndSplit ==
    /\ tried.called /\ tried.out.ok
    /\ \E i \in DOMAIN tried.pattern.structure :
          /\ tried.pattern.structure[i].field = "printer"
          /\ tried.pattern.structure[i].match_type = "key_search"
    /\ \E i \in DOMAIN tried.pattern.structure :
          /\ tried.pattern.structure[i].field = "paper_type"
          /\ tried.pattern.structure[i].position.kind
                \in {"before_printer", "after_printer"}

\* the parts of the name in which an alias key is found
DeviceParts(parts) == {i \in 1..Len(parts) : PartHasKey(parts[i], names)}

\* C30: a rule that finds its device by alias key search and its material by
\* the text before or after the device token uses the same part of the name
\* for both: the part taken as the split point contains an alias key of the
\* device the rule returns.
C30_SplitAtReturnedDevice ==
    KeySearchAndSplit =>
        LET parts == Split(TriedRemaining.val, tried.pattern.delimiter)
            AtDevice(i) ==
                \E k \in DOMAIN names :
                    /\ names[k].val = tried.out.val[1]
                    /\ Contains(Lower(parts[i]), Lower(names[k].key))
        IN  \A i \in DeviceParts(parts) :
                (\A j \in DeviceParts(parts) : i <= j) => AtDevice(i)

-----------------------------------------------------------------------------
(* Claims about the preference key *)

\* the alias keys of a candidate list
KeySet(candidates) == {candidates[i].key : i \in 1..Len(candidates)}

\* C23: the preference key identifies the candidate set: every ordering of
\* the same candidates has the same key, and two candidate lists whose sets
\* of alias keys differ have different keys.
C23_KeyIdentifiesCandidates ==
    keyed.called =>
        /\ keyed.reordered_key = keyed.first_key
        /\ KeySet(keyed.first) # KeySet(keyed.second)
              => keyed.first_key # keyed.second_key

-----------------------------------------------------------------------------
(* Claims about the loading of config.yaml *)

\* config.yaml was opened and parsed
Readable == config.exists /\ config.doc.kind # "error"

\* the section is not there, or is no mapping, or has a mapping for a value
AliasSectionBad ==
    \/ config.doc.kind = "other"
    \/ config.doc.printer_names.kind # "dict"
    \/ \E i \in DOMAIN config.doc.printer_names.items :
          config.doc.printer_names.items[i].val.kind = "dict"

\* the rule list is not there, or is no list
RuleListBad ==
    \/ config.doc.kind = "other"
    \/ config.doc.filename_patterns.kind # "list"

\* C19: when config.yaml is readable but its device-alias section, or its
\* rule list, is missing or malformed, loading ends with the built-in alias
\* table, respectively the built-in rule set.
C19_DefaultsForBadSections ==
    loaded.done /\ Readable =>
        /\ AliasSectionBad => loaded.printer_names = DefaultPrinterNames
        /\ RuleListBad => loaded.patterns = DefaultCatalog

\* the entry is a mapping whose structure is a list of mappings (or absent),
\* whose variants are a list (or absent) and whose paper_type_processing is
\* a mapping (or absent)
Parseable(entry) ==
    /\ entry.kind = "dict"
    /\ entry.structure.kind \in {"absent", "list"}
    /\ \A i \in DOMAIN entry.structure.items : entry.structure.items[i].kind = "dict"
    /\ entry.variants.kind \in {"absent", "list"}
    /\ entry.paper_type_processing.kind \in {"absent", "dict"}

\* the number of elements of seq named name
Named(seq, name) == Cardinality({i \in DOMAIN seq : seq[i].name = name})

\* the two alias sections were loaded and the rule list is a list
RuleListLoaded ==
    /\ loaded.done
    /\ config.exists
    /\ config.doc.kind = "dict"
    /\ ~AliasSectionBad
    /\ config.doc.brand_name_mappings.kind \in {"missing", "dict"}
    /\ config.doc.filename_patterns.kind = "list"

\* C20: a rule list with unparseable entries gives the catalog of exactly
\* its parseable entries, a bad entry never costs a valid one; the built-in
\* catalog is used only when no entry is parseable; the catalog is never
\* empty.
C20_ExactlyTheParseableEntries ==
    RuleListLoaded =>
        LET entries == config.doc.filename_patterns.items
            good == SelectSeq(entries, Parseable)
        IN  /\ loaded.patterns # << >>
            /\ IF good = << >>
               THEN loaded.patterns = DefaultCatalog
               ELSE /\ Len(loaded.patterns) = Len(good)
                    /\ \A i \in DOMAIN good :
                          Named(loaded.patterns, good[i].name) =
                              Named(good, good[i].name)

=============================================================================
